---- MODULE Spec2Model ----
(***************************************************************************)
(* Verification model of the cops-and-robbers repository.                  *)
(*                                                                         *)
(*   Spec / FairSpec : the match driver (shared/game.py, engine/game.py)   *)
(*                     played by arbitrary players.                        *)
(*   MinimaxSpec     : the minimax search of the cops (engine/modules/     *)
(*                     minimax) called on small graphs.                    *)
(*   EngineSpec      : the engine's players (engine/cops.py,               *)
(*                     engine/robber.py) with their strategies, stepping   *)
(*                     in turns on small graphs.                           *)
(*   ZobristSpec     : writes and lookups on one transposition table.      *)
(*   RepairSpec      : restore_possible_move_permutation on its own.       *)
(*   HierarchySpec   : the abstraction hierarchy of a graph.               *)
(*   DistributionSpec: Cops.__init__ distributing the cops over islands.   *)
(*   LoopSpec        : a function wrapped by timeout_loop.                 *)
(*   StoreSpec       : reads and writes of an abstraction store.           *)
(*   EffectiveSpec   : effective_game_graph run on its own.                *)
(*   DescentSpec     : minimax_refinement called again and again.          *)
(*   RelaxationSpec  : the contour relaxation of the robber.               *)
(*   ThreadSpec      : the driver with the thread of a player's call       *)
(*                     and its time-out.                                   *)
(*   RefinementSpec  : abstract_refinement_search on its own.              *)
(***************************************************************************)
EXTENDS Integers, Sequences, FiniteSets, TLC

\* Python's None: for a number, for a player and for a list of positions
None == -1
NoPlayer == "None"
NonePositions == <<None>>
\* a returned value that is not an int, and one that is not a list of ints
BadType == -2
BadTypeList == <<BadType>>

(***************************************************************************)
(* Bounds of the driver model.                                             *)
(***************************************************************************)
MaxNode == 2            \* the driver's graph is the path 0 - 1 - ... - MaxNode
NCops == 1              \* cops_count when it is configured
MaxRoundsBound == 2     \* max_rounds is None or in 1..MaxRoundsBound

\* step() is not called any more once round_number would exceed this
MaxRoundNumber == MaxRoundsBound + 1

DriverNodes == 0..MaxNode
OffGraph == MaxNode + 5

\* graph.has_edge(u, v) on the driver's path graph
HasEdge(u, v) == u \in DriverNodes /\ v \in DriverNodes /\ (u = v + 1 \/ v = u + 1)

(***************************************************************************)
(* shared/status.py, shared/player_id.py                                   *)
(***************************************************************************)
GAME_CONTINUES == "GAME_CONTINUES"
ROBBER_CAUGHT == "ROBBER_CAUGHT"
COPS_OUT_OF_STEPS == "COPS_OUT_OF_STEPS"

Status == {"COPS_EXCEPTION", "COPS_TIMEOUT", "COPS_INVALID_STEP", COPS_OUT_OF_STEPS,
           GAME_CONTINUES,
           ROBBER_CAUGHT, "ROBBER_INVALID_STEP", "ROBBER_TIMEOUT", "ROBBER_EXCEPTION"}

COPS == "COPS"
ROBBER == "ROBBER"
PlayerID == {COPS, ROBBER}

invalid_step_status(p) == IF p = COPS THEN "COPS_INVALID_STEP" ELSE "ROBBER_INVALID_STEP"
timeout_status(p) == IF p = COPS THEN "COPS_TIMEOUT" ELSE "ROBBER_TIMEOUT"
exception_status(p) == IF p = COPS THEN "COPS_EXCEPTION" ELSE "ROBBER_EXCEPTION"

\* a step that leaves the turn with the player who had it
OtherPlayer_Same(p) == p

\* PlayerID(not self.next_player)
OtherPlayer(p) == IF p = COPS THEN ROBBER ELSE COPS

(***************************************************************************)
(* State of the driver.                                                    *)
(***************************************************************************)
VARIABLES
    status,            \* Game.__status
    round_number,      \* Game.round_number
    next_player,       \* Game.next_player (None until the construction succeeded)
    first_player,      \* Game._first_player
    cop_positions,     \* Game._cop_positions (None or a sequence of nodes)
    robber_position,   \* Game._robber_position (None or a node)
    cops_count,        \* Game.cops_count (None: the cops choose)
    max_rounds,        \* Game.max_rounds (None: no round cap)
    cops,              \* Game.cops: has the Cops object been constructed
    robber,            \* Game.robber: has the Robber object been constructed
    pc,                \* position of Game.__init__ ("init_cops" .. "constructed")
    run_state,         \* position of Game.run ("not_called", "running", "returned")
    run_steps,         \* number of step() calls made by Game.run
    last_call,         \* the last player call the driver made and how it ended
    mm_graph,          \* MinimaxEngine.graph
    transposition,     \* MinimaxEngine.transposition / the table handed to minimax_alpha_beta
    mm_call,           \* the last call of the minimax search: its arguments and its result
    mm_calls,          \* number of best_cop_move calls made on the engine
    cops_player,       \* the engine's Cops object
    robber_player,     \* the engine's Robber object
    engine_call,       \* the last call made on the engine's players and what it returned
    engine_turn,       \* the call the engine's players are to get next
    engine_steps,      \* number of step calls made on the engine's players
    zobrist,           \* a ZobristTranspositionTable with its random numbers, and the calls made on it
    repair_call,       \* the last call of restore_possible_move_permutation and what it returned
    hierarchy,         \* an AbstractionHierarchy and the graph it was built for
    loop,              \* a function wrapped by timeout_loop, and the clock
    store,             \* the two stores of one abstraction level, and the clock
    effective_call,    \* the last run of effective_game_graph and what it yielded
    refinement_call,   \* the last call of abstract_refinement_search and what it returned
    descent,           \* a call of minimax_refinement, step by step, and the strategy it works on
    step_thread        \* a driver's turn with the thread that runs the player's step

dvars == <<status, round_number, next_player, first_player, cop_positions, robber_position,
           cops_count, max_rounds, cops, robber, pc, run_state, run_steps, last_call>>
mvars == <<mm_graph, transposition, mm_call, mm_calls>>
evars == <<cops_player, robber_player, engine_call, engine_turn, engine_steps>>
ovars == <<zobrist, repair_call, hierarchy, loop>>
pvars == <<store, effective_call, refinement_call, descent, step_thread>>
vars == <<dvars, mvars, evars, ovars, pvars>>

\* last_call: who was called, for what ("construct", "init_pos", "step"), how the call ended,
\* whether a returned move kept the rules of the game, and a bit that flips with every executed step()
NoCall == [player |-> NoPlayer, kind |-> "none", outcome |-> "none", conforming |-> TRUE, seq |-> 0]

\* the values a cops player may hand back: all lists of NCops entries over the nodes and one
\* value outside the graph, a list one shorter and one longer, or something that is not a list
\* of ints at all
CopReturns ==
    [1..NCops -> DriverNodes \cup {OffGraph}]
        \cup [1..(NCops - 1) -> {0}] \cup [1..(NCops + 1) -> {0}] \cup {BadTypeList}

\* the values a robber player may hand back
RobberReturns == DriverNodes \cup {OffGraph, BadType}

(***************************************************************************)
(* engine/game.py: the position setters, and shared/game.py: the status    *)
(* setter.  Each returns the new values of the fields it may write.        *)
(***************************************************************************)
\* a status setter that lacks the GAME_CONTINUES guard
SetStatus_Overwrite(cur, new) == new

\* Game.status (setter): only a continuing game takes a new status
SetStatus(cur, new) == IF cur = GAME_CONTINUES THEN new ELSE cur

AllLegalCopMoves(old, new) ==
    \A i \in 1..(IF Len(old) < Len(new) THEN Len(old) ELSE Len(new)) :
        old[i] = new[i] \/ HasEdge(old[i], new[i])

\* a cops setter that lacks the test of the single moves
SetCopPositions_NoMoveCheck(st, cp, cc, positions) ==
    IF positions = BadTypeList
    THEN [st |-> SetStatus(st, "COPS_INVALID_STEP"), cp |-> cp, cc |-> cc]
    ELSE LET cc1 == IF cc = None THEN Len(positions) ELSE cc
             st1 == IF Len(positions) # cc1
                        THEN SetStatus(st, "COPS_INVALID_STEP")
                    ELSE IF ~ \A i \in 1..Len(positions) : positions[i] \in DriverNodes
                        THEN SetStatus(st, "COPS_INVALID_STEP")
                    ELSE st
         IN  [st |-> st1, cp |-> positions, cc |-> cc1]

\* Game.cop_positions (setter): [st |-> status, cp |-> _cop_positions, cc |-> cops_count]
SetCopPositions(st, cp, cc, positions) ==
    IF positions = BadTypeList
    THEN [st |-> SetStatus(st, "COPS_INVALID_STEP"), cp |-> cp, cc |-> cc]
    ELSE LET cc1 == IF cc = None THEN Len(positions) ELSE cc
             st1 == IF Len(positions) # cc1
                        THEN SetStatus(st, "COPS_INVALID_STEP")
                    ELSE IF ~ \A i \in 1..Len(positions) : positions[i] \in DriverNodes
                        THEN SetStatus(st, "COPS_INVALID_STEP")
                    ELSE IF cp # NonePositions /\ ~ AllLegalCopMoves(cp, positions)
                        THEN SetStatus(st, "COPS_INVALID_STEP")
                    ELSE st
         IN  [st |-> st1, cp |-> positions, cc |-> cc1]

\* Game.robber_position (setter): [st |-> status, rp |-> _robber_position]
SetRobberPosition(st, rp, position) ==
    IF position = BadType
    THEN [st |-> SetStatus(st, "ROBBER_INVALID_STEP"), rp |-> rp]
    ELSE LET st1 == IF position \notin DriverNodes
                        THEN SetStatus(st, "ROBBER_INVALID_STEP")
                    ELSE IF rp # None /\ rp # position /\ ~ HasEdge(rp, position)
                        THEN SetStatus(st, "ROBBER_INVALID_STEP")
                    ELSE st
         IN  [st |-> st1, rp |-> position]

\* the cop_positions property: the empty list while nothing was stored
CopPositionsProperty(cp) == IF cp = NonePositions THEN <<>> ELSE cp

InSeq(x, s) == \E i \in 1..Len(s) : s[i] = x

(***************************************************************************)
(* shared/game.py: Game.__step_player.  outcome is how the player's thread *)
(* ended: "return" (with value ret), "timeout" or "exception".             *)
(* Result: [st, cp, rp, cc].                                               *)
(***************************************************************************)
\* a __step_player that ends the game on every timeout
StepPlayer_TimeoutLoses(st, cp, rp, cc, player_id, is_init_pos, outcome, ret) ==
    IF outcome = "timeout"
    THEN [st |-> SetStatus(st, timeout_status(player_id)), cp |-> cp, rp |-> rp, cc |-> cc]
    ELSE IF outcome = "exception"
    THEN [st |-> SetStatus(st, exception_status(player_id)), cp |-> cp, rp |-> rp, cc |-> cc]
    ELSE IF player_id = COPS
    THEN LET r == SetCopPositions(st, cp, cc, ret)
         IN  [st |-> r.st, cp |-> r.cp, rp |-> rp, cc |-> r.cc]
    ELSE LET r == SetRobberPosition(st, rp, ret)
         IN  [st |-> r.st, cp |-> cp, rp |-> r.rp, cc |-> cc]

StepPlayer(st, cp, rp, cc, player_id, is_init_pos, outcome, ret) ==
    IF outcome = "timeout"
    THEN [st |-> IF is_init_pos THEN SetStatus(st, timeout_status(player_id)) ELSE st,
          cp |-> cp, rp |-> rp, cc |-> cc]
    ELSE IF outcome = "exception"
    THEN [st |-> SetStatus(st, exception_status(player_id)), cp |-> cp, rp |-> rp, cc |-> cc]
    ELSE IF player_id = COPS
    THEN LET r == SetCopPositions(st, cp, cc, ret)
         IN  [st |-> r.st, cp |-> r.cp, rp |-> rp, cc |-> r.cc]
    ELSE LET r == SetRobberPosition(st, rp, ret)
         IN  [st |-> r.st, cp |-> cp, rp |-> r.rp, cc |-> cc]

Outcomes == {"return", "timeout", "exception"}

(***************************************************************************)
(* The rules of the game as the match driver contract states them: the     *)
(* right number of cops, nodes of the graph, every piece stays or moves    *)
(* along an edge.                                                          *)
(***************************************************************************)
CopMoveConforms(prev, cc, ret) ==
    /\ ret # BadTypeList
    /\ cc # None => Len(ret) = cc
    /\ \A i \in 1..Len(ret) : ret[i] \in DriverNodes
    /\ prev # NonePositions =>
          /\ Len(ret) = Len(prev)
          /\ \A i \in 1..Len(ret) : ret[i] = prev[i] \/ HasEdge(prev[i], ret[i])

RobberMoveConforms(prev, ret) ==
    /\ ret \in DriverNodes
    /\ prev # None => (ret = prev \/ HasEdge(prev, ret))

Conforms(player_id, cp, rp, cc, outcome, ret) ==
    IF outcome # "return" THEN TRUE
    ELSE IF player_id = COPS THEN CopMoveConforms(cp, cc, ret)
    ELSE RobberMoveConforms(rp, ret)

\* the ways a call of a player's get_init_position(s) or step can end: <<outcome, returned value>>
CallEnds(player_id) ==
    {<<"timeout", None>>, <<"exception", None>>}
        \cup {<<"return", ret>> : ret \in IF player_id = COPS THEN CopReturns ELSE RobberReturns}

(***************************************************************************)
(* The minimax search while nothing has called it.                         *)
(***************************************************************************)
NoGraph == [nodes |-> {}, order |-> <<>>, adj |-> <<>>]
\* ZobristTranspositionTable.table = {}
EmptyTable == <<>>
NoMinimaxCall ==
    [kind |-> "none", cops |-> <<>>, robber |-> None, cop_turn |-> TRUE, depth |-> 0,
     in_time |-> TRUE, move |-> <<>>, evaluation |-> 0, is_winning |-> FALSE]

MinimaxIdle ==
    /\ mm_graph = NoGraph
    /\ transposition = EmptyTable
    /\ mm_call = NoMinimaxCall
    /\ mm_calls = 0

(***************************************************************************)
(* The engine's players while they are not constructed.                    *)
(***************************************************************************)
NoEngineCall ==
    [kind |-> "none", raised |-> FALSE, cops_before |-> <<>>, robber_before |-> None,
     returned |-> <<>>, way |-> "none", component |-> 0]

EngineIdle ==
    /\ cops_player = [graph |-> NoGraph]
    /\ robber_player = [graph |-> NoGraph]
    /\ engine_call = NoEngineCall
    /\ engine_turn = "idle"
    /\ engine_steps = 0

(***************************************************************************)
(* The parts of the engine that are checked on their own, while nothing    *)
(* has constructed them.                                                   *)
(***************************************************************************)
NoZobrist == [constructed |-> FALSE]
NoRepairCall == [called |-> FALSE]
NoHierarchy == [constructed |-> FALSE]
NoLoop == [wrapped |-> FALSE]
NoStore == [constructed |-> FALSE]
NoEffectiveCall == [called |-> FALSE]
NoRefinementCall == [called |-> FALSE]
NoDescent == [called |-> FALSE]
NoStepThread == [started |-> FALSE]

MorePartsIdle ==
    /\ store = NoStore
    /\ effective_call = NoEffectiveCall
    /\ refinement_call = NoRefinementCall
    /\ descent = NoDescent
    /\ step_thread = NoStepThread

PartsIdle ==
    /\ zobrist = NoZobrist
    /\ repair_call = NoRepairCall
    /\ hierarchy = NoHierarchy
    /\ loop = NoLoop
    /\ MorePartsIdle

(***************************************************************************)
(* Init: the fields as Game.__init__ sets them before it starts the        *)
(* players (shared/game.py lines 53-72).                                   *)
(***************************************************************************)
Init ==
    /\ status = GAME_CONTINUES
    /\ round_number = 0
    /\ next_player = NoPlayer
    /\ first_player = NoPlayer
    /\ cop_positions = NonePositions
    /\ robber_position = None
    /\ cops_count \in {None, NCops}
    /\ max_rounds \in {None} \cup (1..MaxRoundsBound)
    /\ cops = FALSE
    /\ robber = FALSE
    /\ pc = "init_cops"
    /\ run_state = "not_called"
    /\ run_steps = 0
    /\ last_call = NoCall
    /\ MinimaxIdle
    /\ EngineIdle
    /\ PartsIdle

\* Game.__init_player: outcome of the constructor thread
InitPlayerResult(st, player_id, outcome) ==
    IF outcome = "timeout" THEN SetStatus(st, timeout_status(player_id))
    ELSE IF outcome = "exception" THEN SetStatus(st, exception_status(player_id))
    ELSE st

\* Game.__init__ (shared): self.__init_player(PlayerID.COPS), then the status test
InitPlayerCops ==
    /\ UNCHANGED <<mvars, evars, ovars, pvars>>
    /\ pc = "init_cops"
    /\ \E outcome \in Outcomes :
        /\ status' = InitPlayerResult(status, COPS, outcome)
        /\ cops' = (outcome = "return")
        /\ pc' = IF status' = GAME_CONTINUES THEN "init_robber" ELSE "constructed"
        /\ last_call' = [player |-> COPS, kind |-> "construct", outcome |-> outcome,
                         conforming |-> TRUE, seq |-> last_call.seq]
    /\ UNCHANGED <<round_number, next_player, first_player, cop_positions, robber_position,
                   cops_count, max_rounds, robber, run_state, run_steps>>

\* Game.__init__ (shared): self.__init_player(PlayerID.ROBBER); Game.__init__ (engine): status test
InitPlayerRobber ==
    /\ UNCHANGED <<mvars, evars, ovars, pvars>>
    /\ pc = "init_robber"
    /\ \E outcome \in Outcomes :
        /\ status' = InitPlayerResult(status, ROBBER, outcome)
        /\ robber' = (outcome = "return")
        /\ pc' = IF status' = GAME_CONTINUES THEN "init_positions" ELSE "constructed"
        /\ last_call' = [player |-> ROBBER, kind |-> "construct", outcome |-> outcome,
                         conforming |-> TRUE, seq |-> last_call.seq]
    /\ UNCHANGED <<round_number, next_player, first_player, cop_positions, robber_position,
                   cops_count, max_rounds, cops, run_state, run_steps>>

\* Game.__init__ (engine): self.__step_player(PlayerID.COPS, is_init_pos=True) and what follows
InitCopPositions ==
    /\ UNCHANGED <<mvars, evars, ovars, pvars>>
    /\ pc = "init_positions"
    /\ \E end \in CallEnds(COPS) :
        LET outcome == end[1]
            r == StepPlayer(status, cop_positions, robber_position, cops_count,
                            COPS, TRUE, outcome, end[2])
        IN  /\ status' = r.st
            /\ cop_positions' = r.cp
            /\ robber_position' = r.rp
            /\ cops_count' = r.cc
            /\ next_player' = IF r.st = GAME_CONTINUES THEN ROBBER ELSE next_player
            /\ first_player' = IF r.st = GAME_CONTINUES THEN ROBBER ELSE first_player
            /\ last_call' = [player |-> COPS, kind |-> "init_pos", outcome |-> outcome,
                             conforming |-> Conforms(COPS, cop_positions, robber_position,
                                                     cops_count, outcome, end[2]),
                             seq |-> last_call.seq]
    /\ pc' = "constructed"
    /\ UNCHANGED <<round_number, max_rounds, cops, robber, run_state, run_steps>>

(***************************************************************************)
(* shared/game.py: Game.step, the whole method.                            *)
(***************************************************************************)
IsInitPos(np, cp, rp) ==
    \/ np = COPS /\ CopPositionsProperty(cp) = <<>>
    \/ np = ROBBER /\ rp = None

\* an end-of-round test that looks at the round cap before the capture
EndOfRound_CapFirst(st, np, fp, cp, rp, rn, mr) ==
    IF np # fp
    THEN IF rn = mr THEN SetStatus(st, COPS_OUT_OF_STEPS)
         ELSE IF InSeq(rp, CopPositionsProperty(cp)) THEN SetStatus(st, ROBBER_CAUGHT)
         ELSE st
    ELSE st

\* an end-of-round test that is off by one in the round cap
EndOfRound_LateCap(st, np, fp, cp, rp, rn, mr) ==
    IF np # fp
    THEN IF InSeq(rp, CopPositionsProperty(cp)) THEN SetStatus(st, ROBBER_CAUGHT)
         ELSE IF rn = mr + 1 THEN SetStatus(st, COPS_OUT_OF_STEPS)
         ELSE st
    ELSE st

\* the status after the end-of-round test of Game.step
EndOfRound(st, np, fp, cp, rp, rn, mr) ==
    IF np # fp
    THEN IF InSeq(rp, CopPositionsProperty(cp)) THEN SetStatus(st, ROBBER_CAUGHT)
         ELSE IF rn = mr THEN SetStatus(st, COPS_OUT_OF_STEPS)
         ELSE st
    ELSE st

\* a round counter that counts when the second mover's turn begins
RoundAtStep_SecondMover(rn, np, fp) == IF np # fp THEN rn + 1 ELSE rn

\* the round number step() works with
RoundAtStep(rn, np, fp) == IF np = fp THEN rn + 1 ELSE rn

StepBody(outcome, ret) ==
    IF status # GAME_CONTINUES /\ next_player = NoPlayer
    THEN UNCHANGED <<status, round_number, next_player, cop_positions, robber_position,
                     cops_count, last_call>>
    ELSE LET rn == RoundAtStep(round_number, next_player, first_player)
             is_init_pos == IsInitPos(next_player, cop_positions, robber_position)
             r == StepPlayer(status, cop_positions, robber_position, cops_count,
                             next_player, is_init_pos, outcome, ret)
         IN  /\ round_number' = rn
             /\ cop_positions' = r.cp
             /\ robber_position' = r.rp
             /\ cops_count' = r.cc
             /\ status' = EndOfRound(r.st, next_player, first_player, r.cp, r.rp, rn, max_rounds)
             /\ next_player' = OtherPlayer(next_player)
             /\ last_call' = [player |-> next_player,
                              kind |-> IF is_init_pos THEN "init_pos" ELSE "step",
                              outcome |-> outcome,
                              conforming |-> Conforms(next_player, cop_positions,
                                                      robber_position, cops_count, outcome, ret),
                              seq |-> 1 - last_call.seq]

StepWith ==
    IF next_player = NoPlayer
    THEN StepBody("none", None)
    ELSE \E end \in CallEnds(next_player) : StepBody(end[1], end[2])

\* a call of Game.step() from outside Game.run (also on a concluded game)
Step ==
    /\ UNCHANGED <<mvars, evars, ovars, pvars>>
    /\ pc = "constructed"
    /\ run_state # "running"
    /\ RoundAtStep(round_number, next_player, first_player) <= MaxRoundNumber
    /\ StepWith
    /\ UNCHANGED <<first_player, max_rounds, cops, robber, pc, run_state, run_steps>>

(***************************************************************************)
(* shared/game.py: Game.run                                                *)
(***************************************************************************)
CallRun ==
    /\ UNCHANGED <<mvars, evars, ovars, pvars>>
    /\ pc = "constructed"
    /\ run_state = "not_called"
    /\ run_state' = "running"
    /\ UNCHANGED <<status, round_number, next_player, first_player, cop_positions,
                   robber_position, cops_count, max_rounds, cops, robber, pc, run_steps,
                   last_call>>

\* one iteration of `while self.status is Status.GAME_CONTINUES: self.step()`
RunIterate ==
    /\ UNCHANGED <<mvars, evars, ovars, pvars>>
    /\ run_state = "running"
    /\ status = GAME_CONTINUES
    /\ RoundAtStep(round_number, next_player, first_player) <= MaxRoundNumber
    /\ StepWith
    /\ run_steps' = run_steps + 1
    /\ UNCHANGED <<first_player, max_rounds, cops, robber, pc, run_state>>

RunReturn ==
    /\ UNCHANGED <<mvars, evars, ovars, pvars>>
    /\ run_state = "running"
    /\ status # GAME_CONTINUES
    /\ run_state' = "returned"
    /\ UNCHANGED <<status, round_number, next_player, first_player, cop_positions,
                   robber_position, cops_count, max_rounds, cops, robber, pc, run_steps,
                   last_call>>

Next ==
    \/ InitPlayerCops
    \/ InitPlayerRobber
    \/ InitCopPositions
    \/ Step
    \/ CallRun
    \/ RunIterate
    \/ RunReturn

Spec == Init /\ [][Next]_vars

\* Game.run is a plain loop: once called it keeps iterating and returns when its test fails
FairSpec == Spec /\ WF_vars(RunIterate) /\ WF_vars(RunReturn)

(***************************************************************************)
(* Properties of the match driver.                                         *)
(***************************************************************************)
\* this transition executed the body of Game.step
StepTaken == last_call'.seq # last_call.seq
\* this transition made the initial-position call of Game.__init__ (engine)
InitPosTaken == pc = "init_positions" /\ pc' = "constructed"
\* this transition constructed a player
ConstructTaken == pc \in {"init_cops", "init_robber"} /\ pc' # pc

Caught(cp, rp) == InSeq(rp, CopPositionsProperty(cp))
TimeoutStatuses == {"COPS_TIMEOUT", "ROBBER_TIMEOUT"}
InvalidStatuses == {"COPS_INVALID_STEP", "ROBBER_INVALID_STEP"}

\* C3: in a continuing game a returned move that breaks a rule gives the mover's INVALID_STEP
\* status (also when the illegal cop move lands on the robber), and a rule-conforming move never
\* gives an INVALID_STEP status.
C3_InvalidStepLoses ==
    [][((StepTaken \/ InitPosTaken) /\ status = GAME_CONTINUES /\ last_call'.outcome = "return")
         => /\ ~ last_call'.conforming => status' = invalid_step_status(last_call'.player)
            /\ last_call'.conforming => status' \notin InvalidStatuses]_vars

\* an illegal cop move that lands on the robber's node lost the game for the cops
C3_Witness ==
    /\ status = "COPS_INVALID_STEP"
    /\ last_call.kind = "step" /\ last_call.outcome = "return" /\ ~ last_call.conforming
    /\ Caught(cop_positions, robber_position)
    /\ Len(cop_positions) = NCops /\ \A i \in 1..NCops : cop_positions[i] \in DriverNodes

\* C4 (as stated): a timeout gives the TIMEOUT status iff it happens in a construction or an
\* initial-position call; a timeout in a regular step leaves the status at GAME_CONTINUES, leaves
\* the positions unchanged and passes the turn.
C4_Original ==
    [][((StepTaken \/ InitPosTaken \/ ConstructTaken) /\ status = GAME_CONTINUES)
         => /\ status' \in TimeoutStatuses
                <=> (last_call'.outcome = "timeout" /\ last_call'.kind \in {"construct", "init_pos"})
            /\ status' \in TimeoutStatuses => status' = timeout_status(last_call'.player)
            /\ (last_call'.outcome = "timeout" /\ last_call'.kind = "step")
                => /\ status' = GAME_CONTINUES
                   /\ cop_positions' = cop_positions
                   /\ robber_position' = robber_position
                   /\ next_player' = OtherPlayer(next_player)]_vars

\* C4 (amended): as above, but after a timed-out regular step of the cops the end-of-round test
\* still runs, so the status is GAME_CONTINUES only if the robber stands on no cop and the round
\* cap is not reached; a timed-out step never gives a TIMEOUT status.
C4_TimeoutForfeitsTurn ==
    [][((StepTaken \/ InitPosTaken \/ ConstructTaken) /\ status = GAME_CONTINUES)
         => /\ status' \in TimeoutStatuses
                <=> (last_call'.outcome = "timeout" /\ last_call'.kind \in {"construct", "init_pos"})
            /\ status' \in TimeoutStatuses => status' = timeout_status(last_call'.player)
            /\ (last_call'.outcome = "timeout" /\ last_call'.kind = "step")
                => /\ cop_positions' = cop_positions
                   /\ robber_position' = robber_position
                   /\ next_player' = OtherPlayer(next_player)
                   /\ status' = IF last_call'.player = ROBBER THEN GAME_CONTINUES
                                ELSE IF Caught(cop_positions, robber_position) THEN ROBBER_CAUGHT
                                ELSE IF round_number = max_rounds THEN COPS_OUT_OF_STEPS
                                ELSE GAME_CONTINUES]_vars

\* the cops timed out in a regular step and the game ended at the round cap
C4_Witness ==
    /\ last_call.kind = "step" /\ last_call.outcome = "timeout" /\ last_call.player = COPS
    /\ status = COPS_OUT_OF_STEPS

\* C5: once the status has left GAME_CONTINUES it never changes again.
C5_StatusWriteOnce == [][status # GAME_CONTINUES => status' = status]_vars

\* a player raised an exception in a game that had already ended with a capture
C5_Witness ==
    /\ status = ROBBER_CAUGHT
    /\ last_call.kind = "step" /\ last_call.outcome = "exception"

\* C6 (as stated): whenever after any player's rule-conforming move some cop stands on the
\* robber's node, the game ends with ROBBER_CAUGHT.
C6_Original ==
    [][((StepTaken \/ InitPosTaken) /\ status = GAME_CONTINUES
          /\ last_call'.outcome = "return" /\ last_call'.conforming
          /\ Caught(cop_positions', robber_position'))
         => status' = ROBBER_CAUGHT]_vars

\* C6 (amended): whenever after a rule-conforming move of the cops in Game.step (the end of a
\* round) some cop stands on the robber's node, the game ends with ROBBER_CAUGHT; the robber's
\* own move never ends the game with ROBBER_CAUGHT or COPS_OUT_OF_STEPS.
C6_CaughtAtRoundEnd ==
    [][(StepTaken /\ status = GAME_CONTINUES
          /\ last_call'.outcome = "return" /\ last_call'.conforming)
         => /\ (last_call'.player = COPS /\ Caught(cop_positions', robber_position'))
                => status' = ROBBER_CAUGHT
            /\ last_call'.player = ROBBER => status' = GAME_CONTINUES]_vars

\* the cops moved by the rules onto the robber in the last round the cap allows
C6_Witness ==
    /\ status = ROBBER_CAUGHT
    /\ last_call.player = COPS /\ last_call.outcome = "return" /\ last_call.conforming
    /\ round_number = max_rounds

\* C7: round_number grows by one exactly in the steps in which the first mover (the robber) is
\* to move, ROBBER_CAUGHT and COPS_OUT_OF_STEPS are only set in a step of the cops, and the
\* player to move alternates on every step.
C7_RoundCounting ==
    [][StepTaken
         => /\ first_player = ROBBER
            /\ next_player' = OtherPlayer(next_player)
            /\ round_number' = IF next_player = ROBBER THEN round_number + 1 ELSE round_number
            /\ (status' # status /\ status' \in {ROBBER_CAUGHT, COPS_OUT_OF_STEPS})
                => next_player = COPS]_vars

\* the second round has begun and the cops are to move
C7_Witness == round_number = 2 /\ next_player = COPS /\ status = GAME_CONTINUES

MaxGraphNodes == 4      \* the graphs searched have at most MaxGraphNodes nodes
MaxCops == 1            \* and carry 1..MaxCops cops
MaxDepth == 3           \* minimax_alpha_beta is called with depths 0..MaxDepth
MaxCalls == 1           \* best_cop_move is called at most MaxCalls times on one engine
MaxBudget == 1          \* a deadline cuts a search after 0..MaxBudget expansions or loop rounds

MINIMAX_DEPTH == 6

\* no deadline (finish_time far away)
Unlimited == -3

Range(s) == {s[i] : i \in 1..Len(s)}
SeqFilter(s, keep) == SelectSeq(s, LAMBDA x : x \in keep)

RECURSIVE SortedSeq(_)
\* the elements of a set of integers in ascending order
SortedSeq(S) ==
    IF S = {} THEN <<>>
    ELSE LET m == CHOOSE x \in S : \A y \in S : x <= y
         IN  <<m>> \o SortedSeq(S \ {m})

(***************************************************************************)
(* Graphs as networkx keeps them: the nodes and, for every node, its       *)
(* neighbours in the order the edges were added.                           *)
(***************************************************************************)
\* networkx.path_graph(n)
path_graph(n) ==
    [nodes |-> 0..(n - 1),
     order |-> [i \in 1..n |-> i - 1],
     adj |-> [v \in 0..(n - 1) |-> SeqFilter(<<v - 1, v + 1>>, 0..(n - 1))]]

\* networkx.cycle_graph(n), n >= 3
cycle_graph(n) ==
    [nodes |-> 0..(n - 1),
     order |-> [i \in 1..n |-> i - 1],
     adj |-> [v \in 0..(n - 1) |->
                IF v = 0 THEN <<1, n - 1>>
                ELSE IF v = n - 1 THEN <<n - 2, 0>>
                ELSE <<v - 1, v + 1>>]]

\* the tree with the edges (parent[v], v), v = 1 .. n-1, added in this order
tree_graph(n, parent) ==
    [nodes |-> 0..(n - 1),
     order |-> [i \in 1..n |-> i - 1],
     adj |-> [v \in 0..(n - 1) |->
                (IF v = 0 THEN <<>> ELSE <<parent[v]>>)
                    \o SortedSeq({w \in 1..(n - 1) : parent[w] = v})]]

ParentVectors(n) == {parent \in [1..(n - 1) -> 0..(n - 1)] : \A v \in 1..(n - 1) : parent[v] < v}

\* the small graphs the search is run on: paths and all other trees, and cycles
MinimaxGraphs ==
    UNION {{tree_graph(n, parent) : parent \in ParentVectors(n)} : n \in 2..MaxGraphNodes}
        \cup {cycle_graph(n) : n \in 3..MaxGraphNodes}

\* graph.subgraph(nodes).neighbors(v)
Neighbors(G, nodes, v) == SeqFilter(G.adj[v], nodes)

(***************************************************************************)
(* minimax/zobrist.py: the transposition table.  The 64-bit Zobrist key is *)
(* the xor of one random number per (node, number of cops on it), of the   *)
(* robber's and of the turn's number; it is modelled by what it is a       *)
(* function of, without accidental collisions of the random numbers.       *)
(***************************************************************************)
\* Counter(cop_positions)
Counter(cp) == [p \in Range(cp) |-> Cardinality({i \in 1..Len(cp) : cp[i] = p})]

\* ZobristTranspositionTable.key
ZobristKey(cp, rp, cop_turn) == <<Counter(cp), rp, cop_turn>>

\* __contains__ on the hashed key
Contains(table, key, depth) == key \in DOMAIN table /\ table[key].depth >= depth

\* __getitem__ on the hashed key: [depth, move, evaluation], the depth is not looked at
GetItem(table, key) == table[key]

\* a __setitem__ that lets the latest of the deepest writes win
SetItem_LatestWins(table, key, depth, move, evaluation) ==
    IF key \in DOMAIN table /\ table[key].depth > depth THEN table
    ELSE (key :> [depth |-> depth, move |-> move, evaluation |-> evaluation]) @@ table

\* __setitem__ on the hashed key: max() keeps the stored entry unless the new one is deeper
SetItem(table, key, depth, move, evaluation) ==
    LET entry == [depth |-> depth, move |-> move, evaluation |-> evaluation]
    IN  IF key \notin DOMAIN table THEN (key :> entry) @@ table
        ELSE IF table[key].depth >= depth THEN table
        ELSE [table EXCEPT ![key] = entry]

\* a __contains__ that takes any stored entry, whatever its depth
TableContains_AnyDepth(tt, cp, rp, cop_turn, depth) == ZobristKey(cp, rp, cop_turn) \in DOMAIN tt

\* ZobristTranspositionTable.__contains__
TableContains(tt, cp, rp, cop_turn, depth) == Contains(tt, ZobristKey(cp, rp, cop_turn), depth)

\* ZobristTranspositionTable.__getitem__: [depth, move, evaluation], the depth is not looked at
TableGet(tt, cp, rp, cop_turn) == GetItem(tt, ZobristKey(cp, rp, cop_turn))

\* ZobristTranspositionTable.__setitem__: max() keeps the stored entry unless the new one is deeper
TableSet(tt, cp, rp, cop_turn, depth, move, evaluation) ==
    SetItem(tt, ZobristKey(cp, rp, cop_turn), depth, move, evaluation)

(***************************************************************************)
(* minimax/alpha_beta.py.  Evaluations are kept as twice the source's      *)
(* numbers: 0 (robber), 1 (the source's 0.5, a search cut by the deadline) *)
(* and 2 (the source's 1, COP_WIN_VALUE).  A robber move is kept as a      *)
(* one-element sequence.                                                   *)
(***************************************************************************)
ROBBER_WIN_VALUE == 0
TIMEOUT_VALUE == 1
COP_WIN_VALUE == 2

is_terminal(cp, rp) == rp \in Range(cp)

RECURSIVE Product(_)
\* itertools.product(*lists): the last list varies fastest
Product(lists) ==
    IF Len(lists) = 0 THEN << <<>> >>
    ELSE LET rest == Product(Tail(lists))
             head == Head(lists)
             n == Len(rest)
         IN  [i \in 1..(Len(head) * n) |-> <<head[((i - 1) \div n) + 1]>> \o rest[((i - 1) % n) + 1]]

\* the search context of one iterative_deepening_minimax call: the graph the cops move on, the
\* nodes of the effective graph the robber moves on, the hidden cops (0-based indices) and
\* their fixated steps
FullContext(G) == [graph |-> G, effective |-> G.nodes, hidden |-> {}, fixated |-> <<>>]

\* iterative_deepening.py: cop_transitions, every cop's neighbours and then its own node
cop_transitions(ctx, cp) ==
    Product([i \in 1..Len(cp) |->
                IF (i - 1) \notin ctx.hidden
                THEN Append(ctx.graph.adj[cp[i]], cp[i])
                ELSE <<ctx.fixated[i - 1]>>])

\* iterative_deepening.py: robber_transitions, the robber's node and then its neighbours in the
\* effective graph
robber_transitions(ctx, rp) == <<rp>> \o Neighbors(ctx.graph, ctx.effective, rp)

\* one expansion less until the deadline
Spend(budget) == IF budget = Unlimited THEN Unlimited ELSE budget - 1

\* the result of one call, bound to a name as an assignment binds it
With(value, Body(_)) == CHOOSE result \in {Body(v) : v \in {value}} : TRUE

RECURSIVE minimax_alpha_beta(_,_,_,_,_,_,_,_,_)
RECURSIVE CopSuccessors(_,_,_,_,_,_,_,_,_,_,_)
RECURSIVE RobberSuccessors(_,_,_,_,_,_,_,_,_,_,_)

\* alpha_beta.py lines 56-80: the loop over the cops' successor positions from the i-th on
CopSuccessors(ctx, tt, successors, i, rp, remaining_depth, budget, alpha, beta,
              best_move, evaluation) ==
    IF i > Len(successors)
    THEN [tt |-> tt, move |-> best_move, evaluation |-> evaluation, budget |-> budget]
    ELSE With(minimax_alpha_beta(ctx, tt, successors[i], rp, FALSE, remaining_depth - 1,
                                 budget, alpha, beta),
              LAMBDA r :
                LET better == r.evaluation > evaluation
                    evaluation1 == IF better THEN r.evaluation ELSE evaluation
                    best_move1 == IF better THEN successors[i] ELSE best_move
                    alpha1 == IF evaluation1 > alpha THEN evaluation1 ELSE alpha
                IN  IF evaluation1 >= beta
                    THEN [tt |-> r.tt, move |-> best_move1, evaluation |-> evaluation1,
                          budget |-> r.budget]
                    ELSE CopSuccessors(ctx, r.tt, successors, i + 1, rp, remaining_depth,
                                       r.budget, alpha1, beta, best_move1, evaluation1))

\* alpha_beta.py lines 84-108: the loop over the robber's successor positions from the i-th on
RobberSuccessors(ctx, tt, successors, i, cp, remaining_depth, budget, alpha, beta,
                 best_move, evaluation) ==
    IF i > Len(successors)
    THEN [tt |-> tt, move |-> best_move, evaluation |-> evaluation, budget |-> budget]
    ELSE With(minimax_alpha_beta(ctx, tt, cp, successors[i], TRUE, remaining_depth,
                                 budget, alpha, beta),
              LAMBDA r :
                LET better == r.evaluation < evaluation
                    evaluation1 == IF better THEN r.evaluation ELSE evaluation
                    best_move1 == IF better THEN <<successors[i]>> ELSE best_move
                    beta1 == IF evaluation1 < beta THEN evaluation1 ELSE beta
                IN  IF evaluation1 <= alpha
                    THEN [tt |-> r.tt, move |-> best_move1, evaluation |-> evaluation1,
                          budget |-> r.budget]
                    ELSE RobberSuccessors(ctx, r.tt, successors, i + 1, cp, remaining_depth,
                                          r.budget, alpha, beta1, best_move1, evaluation1))

\* alpha_beta.py lines 48-112: the position is stored and the stored entry is returned
StoreAndReturn(tt, cp, rp, cop_turn, remaining_depth, move, evaluation, budget) ==
    With(TableSet(tt, cp, rp, cop_turn, remaining_depth, move, evaluation),
         LAMBDA tt1 :
            [tt |-> tt1, move |-> TableGet(tt1, cp, rp, cop_turn).move,
             evaluation |-> TableGet(tt1, cp, rp, cop_turn).evaluation, budget |-> budget])

\* minimax_alpha_beta: [tt |-> the table afterwards, move, evaluation, budget |-> what is left
\* until the deadline].  budget = 0: finish_time - time.time() is below the threshold.
minimax_alpha_beta(ctx, tt, cp, rp, cop_turn, remaining_depth, budget, alpha, beta) ==
    IF TableContains(tt, cp, rp, cop_turn, remaining_depth)
    THEN [tt |-> tt, move |-> TableGet(tt, cp, rp, cop_turn).move,
          evaluation |-> TableGet(tt, cp, rp, cop_turn).evaluation, budget |-> budget]
    ELSE IF is_terminal(cp, rp) \/ remaining_depth <= 0
    THEN StoreAndReturn(tt, cp, rp, cop_turn, remaining_depth,
                        IF cop_turn THEN cp ELSE <<rp>>,
                        IF is_terminal(cp, rp) THEN COP_WIN_VALUE ELSE ROBBER_WIN_VALUE,
                        budget)
    ELSE IF budget = 0
    THEN [tt |-> tt, move |-> IF cop_turn THEN cp ELSE <<rp>>, evaluation |-> TIMEOUT_VALUE,
          budget |-> 0]
    ELSE With(IF cop_turn
              THEN CopSuccessors(ctx, tt, cop_transitions(ctx, cp), 1, rp, remaining_depth,
                                 Spend(budget), alpha, beta, cp, alpha)
              ELSE RobberSuccessors(ctx, tt, robber_transitions(ctx, rp), 1, cp,
                                    remaining_depth, Spend(budget), alpha, beta, <<rp>>, beta),
              LAMBDA r : StoreAndReturn(r.tt, cp, rp, cop_turn, remaining_depth, r.move,
                                        r.evaluation, r.budget))

(***************************************************************************)
(* util/search.py: the pursuit on preferably disjoint paths.               *)
(* networkx.astar_path with unit edge weights and the heuristic            *)
(* penalty[v]: the queue is ordered by (distance + heuristic, insertion    *)
(* count), a node's heuristic is read when it is first enqueued.           *)
(***************************************************************************)
RECURSIVE TracePath(_,_,_)
TracePath(explored, node, path) ==
    IF node = None THEN path
    ELSE TracePath(explored, explored[node], <<node>> \o path)

RECURSIVE AStarRelax(_,_,_,_,_,_,_)
\* the loop over the neighbours of the explored node cur, from the i-th on
AStarRelax(neighbors, i, cur, penalty, queue, enqueued, count) ==
    IF i > Len(neighbors) THEN [queue |-> queue, enqueued |-> enqueued, count |-> count]
    ELSE LET neighbor == neighbors[i]
             ncost == cur.dist + 1
         IN  IF neighbor \in DOMAIN enqueued /\ enqueued[neighbor].cost <= ncost
             THEN AStarRelax(neighbors, i + 1, cur, penalty, queue, enqueued, count)
             ELSE LET h == IF neighbor \in DOMAIN enqueued THEN enqueued[neighbor].h
                           ELSE penalty[neighbor]
                      item == [f |-> ncost + h, count |-> count, node |-> neighbor,
                               dist |-> ncost, parent |-> cur.node]
                  IN  AStarRelax(neighbors, i + 1, cur, penalty, queue \cup {item},
                                 (neighbor :> [cost |-> ncost, h |-> h]) @@ enqueued, count + 1)

RECURSIVE AStarLoop(_,_,_,_,_,_,_)
\* the path found, or <<>> where astar_path raises NetworkXNoPath
AStarLoop(G, target, penalty, queue, enqueued, explored, count) ==
    IF queue = {} THEN <<>>
    ELSE LET cur == CHOOSE e \in queue :
                        \A o \in queue : e.f < o.f \/ (e.f = o.f /\ e.count <= o.count)
             rest == queue \ {cur}
         IN  IF cur.node = target THEN TracePath(explored, cur.parent, <<cur.node>>)
             ELSE IF cur.node \in DOMAIN explored
                     /\ (explored[cur.node] = None \/ enqueued[cur.node].cost < cur.dist)
             THEN AStarLoop(G, target, penalty, rest, enqueued, explored, count)
             ELSE With(AStarRelax(G.adj[cur.node], 1, cur, penalty, rest, enqueued, count),
                       LAMBDA r : AStarLoop(G, target, penalty, r.queue, r.enqueued,
                                            (cur.node :> cur.parent) @@ explored, r.count))

astar_path(G, source, target, penalty) ==
    AStarLoop(G, target, penalty,
              {[f |-> 0, count |-> 0, node |-> source, dist |-> 0, parent |-> None]},
              <<>>, <<>>, 1)

\* penalty_astar: the path and the penalties after every node of the path was charged
penalty_astar(G, source, target, penalty) ==
    With(astar_path(G, source, target, penalty),
         LAMBDA path :
            [path |-> path,
             penalty |-> [v \in DOMAIN penalty |->
                            IF v \in Range(path) THEN penalty[v] + 1 ELSE penalty[v]]])

\* a step that jumps to the end of the path
first_step_on_path_Last(path) == path[Len(path)]

\* first_step_on_path
first_step_on_path(path) == IF Len(path) <= 1 THEN path[1] ELSE path[2]

RECURSIVE DisjointSearchFrom(_,_,_,_,_,_)
DisjointSearchFrom(G, cp, i, rp, penalty, move) ==
    IF i > Len(cp) THEN move
    ELSE With(penalty_astar(G, cp[i], rp, penalty),
              LAMBDA r : DisjointSearchFrom(G, cp, i + 1, rp, r.penalty,
                                            Append(move, first_step_on_path(r.path))))

\* disjoint_search_steps: penalty = defaultdict(lambda: 0)
disjoint_search_steps(G, cp, rp) ==
    DisjointSearchFrom(G, cp, 1, rp, [v \in G.nodes |-> 0], <<>>)

(***************************************************************************)
(* minimax/engine.py: effective_game_graph.  The sequence of what the      *)
(* generator yields: [nodes |-> nodes of the sub graph, hidden |-> the set *)
(* hidden_cops at that time].  As in the source, hidden_cops starts as     *)
(* the cop indices 0 .. n_cops-1 and the contours, sets of nodes, are      *)
(* taken away from it.                                                     *)
(***************************************************************************)
RECURSIVE ContourLoop(_,_,_,_,_,_,_)
ContourLoop(G, contour, hidden_cops, visited_nodes, radius, max_radius, yielded) ==
    IF contour = {} \/ radius > max_radius THEN yielded
    ELSE LET visited == visited_nodes \cup contour
             next_contour == {neighbor \in G.nodes :
                                 /\ neighbor \notin visited
                                 /\ \E node \in contour : neighbor \in Range(G.adj[node])}
             newly_found_cops == hidden_cops \cap next_contour
             hidden == hidden_cops \ newly_found_cops
         IN  ContourLoop(G, next_contour, hidden, visited, radius + 1, max_radius,
                         IF newly_found_cops # {}
                         THEN Append(yielded, [nodes |-> visited \cup next_contour,
                                               hidden |-> hidden])
                         ELSE yielded)

effective_game_graph(G, cp, rp, max_radius) ==
    ContourLoop(G, {rp}, (0..(Len(cp) - 1)) \ {rp}, {}, 0, max_radius, <<>>)

(***************************************************************************)
(* minimax/iterative_deepening.py                                          *)
(***************************************************************************)
\* possible_next_nodes[cop_id] of restore_possible_move_permutation (1-based here)
PossibleNextNodes(G, cp, i) == {cp[i]} \cup Range(G.adj[cp[i]])

\* matchings that give one entry of the move to several cops
MoveMatchings_Shared(G, cp, move) ==
    {m \in [1..Len(cp) -> 0..Len(move)] :
        \A i \in 1..Len(cp) : m[i] # 0 => move[m[i]] \in PossibleNextNodes(G, cp, i)}

\* the matchings of cops to entries of the move in the bipartite graph of the possible steps:
\* m[i] is the index of the entry matched to cop i, or 0
MoveMatchings(G, cp, move) ==
    {m \in [1..Len(cp) -> 0..Len(move)] :
        /\ \A i \in 1..Len(cp) : m[i] # 0 => move[m[i]] \in PossibleNextNodes(G, cp, i)
        /\ \A i, j \in 1..Len(cp) : (i # j /\ m[i] # 0) => m[i] # m[j]}

MatchingSize(m) == Cardinality({i \in DOMAIN m : m[i] # 0})

\* a repair in which a cop left unmatched keeps its entry of the move
restore_possible_move_permutation_KeepsEntry(G, cp, move) ==
    IF \A i \in 1..Len(move) : move[i] \in PossibleNextNodes(G, cp, i)
    THEN {move}
    ELSE With(MoveMatchings(G, cp, move),
              LAMBDA matchings :
                {[i \in 1..Len(move) |-> IF m[i] = 0 THEN move[i] ELSE move[m[i]]] :
                    m \in {m \in matchings :
                              \A o \in matchings : MatchingSize(o) <= MatchingSize(m)}})

\* restore_possible_move_permutation: the set of lists it may return.  max_weight_matching
\* returns some matching of maximum cardinality; a cop left unmatched keeps the placeholder -1.
restore_possible_move_permutation(G, cp, move) ==
    IF \A i \in 1..Len(move) : move[i] \in PossibleNextNodes(G, cp, i)
    THEN {move}
    ELSE With(MoveMatchings(G, cp, move),
              LAMBDA matchings :
                {[i \in 1..Len(move) |-> IF m[i] = 0 THEN -1 ELSE move[m[i]]] :
                    m \in {m \in matchings :
                              \A o \in matchings : MatchingSize(o) <= MatchingSize(m)}})

\* the context of iterative_deepening_minimax: the hidden cops in list(hidden_cops) order get
\* the steps fixated_steps computes for them
SearchContext(G, effective, cp, rp, hidden_cops) ==
    With(SortedSeq(hidden_cops),
         LAMBDA fixated_cops :
            With(disjoint_search_steps(
                     G, [k \in 1..Len(fixated_cops) |-> cp[fixated_cops[k] + 1]], rp),
                 LAMBDA steps :
                    [graph |-> G, effective |-> effective, hidden |-> hidden_cops,
                     fixated |-> [cop_id \in hidden_cops |->
                                    steps[CHOOSE k \in 1..Len(fixated_cops) :
                                              fixated_cops[k] = cop_id]]]))

\* util/timeout.py: timeout_loop lets the next round start (loops: rounds that still start)
LoopStarts(loops) == loops # 0

RECURSIVE DepthLoop(_,_,_,_,_,_,_,_,_,_)
\* the loop `for depth in range(max_depth + 1)` from depth on
DepthLoop(ctx, tt, cp, rp, cop_turn, depth, max_depth, time, move, value) ==
    IF depth > max_depth \/ ~ LoopStarts(time.loops)
    THEN [tt |-> tt, move |-> move, value |-> value, time |-> time]
    ELSE With(minimax_alpha_beta(ctx, tt, cp, rp, cop_turn, depth, time.budget,
                                 ROBBER_WIN_VALUE, COP_WIN_VALUE),
              LAMBDA r :
                LET time1 == [budget |-> r.budget, loops |-> Spend(time.loops)]
                IN  IF r.evaluation = COP_WIN_VALUE
                    THEN [tt |-> r.tt, move |-> r.move, value |-> r.evaluation,
                          time |-> time1]
                    ELSE DepthLoop(ctx, r.tt, cp, rp, cop_turn, depth + 1, max_depth, time1,
                                   r.move, r.evaluation))

\* iterative_deepening_minimax for the cops' turn:
\* [tt, moves |-> the lists it may return, is_winning, time]
iterative_deepening_minimax(effective, G, cp, rp, max_depth, time, tt, hidden_cops) ==
    With(DepthLoop(SearchContext(G, effective, cp, rp, hidden_cops), tt, cp, rp, TRUE, 0,
                   max_depth, time, cp, ROBBER_WIN_VALUE),
         LAMBDA r :
            [tt |-> r.tt, moves |-> restore_possible_move_permutation(G, cp, r.move),
             is_winning |-> r.value = COP_WIN_VALUE, time |-> r.time])

(***************************************************************************)
(* minimax/engine.py: MinimaxEngine.best_cop_move                          *)
(***************************************************************************)
RECURSIVE ContourMinimax(_,_,_,_,_,_,_,_,_,_)
\* the loop over the yielded contours from the i-th on
ContourMinimax(G, contours, i, cp, rp, depth, time, tt, moves, is_winning) ==
    IF i > Len(contours) \/ ~ LoopStarts(time.loops)
    THEN [tt |-> tt, moves |-> moves, is_winning |-> is_winning]
    ELSE With(iterative_deepening_minimax(contours[i].nodes, G, cp, rp, depth,
                                          [time EXCEPT !.loops = Spend(time.loops)],
                                          tt, contours[i].hidden),
              LAMBDA r :
                IF r.is_winning
                THEN [tt |-> r.tt, moves |-> r.moves, is_winning |-> TRUE]
                ELSE ContourMinimax(G, contours, i + 1, cp, rp, depth, r.time, r.tt,
                                    r.moves, r.is_winning))

\* best_cop_move: [tt |-> the engine's table afterwards, moves |-> the moves it may return,
\* is_winning]
best_cop_move(G, tt, cp, rp, depth, time) ==
    ContourMinimax(G, effective_game_graph(G, cp, rp, depth), 1, cp, rp, depth, time, tt,
                   {cp}, FALSE)

(***************************************************************************)
(* The calls of the search.                                                *)
(***************************************************************************)
\* how far away the deadline of a call is: the expansions minimax_alpha_beta may still start
\* and the rounds timeout_loop still lets start
Budgets == {Unlimited} \cup (0..MaxBudget)
NoDeadline == [budget |-> Unlimited, loops |-> Unlimited]
\* the deadline passes inside a search, or between two rounds of a loop, or never
Deadlines ==
    {[budget |-> b, loops |-> Unlimited] : b \in Budgets}
        \cup {[budget |-> Unlimited, loops |-> l] : l \in Budgets}

CopPlacements(G) == UNION {[1..k -> G.nodes] : k \in 1..MaxCops}

DriverIdle ==
    /\ status = GAME_CONTINUES
    /\ round_number = 0
    /\ next_player = NoPlayer
    /\ first_player = NoPlayer
    /\ cop_positions = NonePositions
    /\ robber_position = None
    /\ cops_count = None
    /\ max_rounds = None
    /\ cops = FALSE
    /\ robber = FALSE
    /\ pc = "idle"
    /\ run_state = "not_called"
    /\ run_steps = 0
    /\ last_call = NoCall

\* MinimaxEngine.__init__ on one of the small graphs
MinimaxInit ==
    /\ DriverIdle
    /\ mm_graph \in MinimaxGraphs
    /\ transposition = EmptyTable
    /\ mm_call = NoMinimaxCall
    /\ mm_calls = 0
    /\ EngineIdle
    /\ PartsIdle

\* minimax_alpha_beta called on its own with an empty table and full-graph transitions
AlphaBetaCall ==
    /\ mm_call.kind = "none"
    /\ \E cp \in CopPlacements(mm_graph), rp \in mm_graph.nodes, cop_turn \in BOOLEAN,
          depth \in 0..MaxDepth, budget \in Budgets :
        \E r \in {minimax_alpha_beta(FullContext(mm_graph), EmptyTable, cp, rp, cop_turn,
                                      depth, budget, ROBBER_WIN_VALUE, COP_WIN_VALUE)} :
            /\ transposition' = r.tt
            /\ mm_call' = [kind |-> "minimax_alpha_beta", cops |-> cp, robber |-> rp,
                           cop_turn |-> cop_turn, depth |-> depth,
                           in_time |-> budget = Unlimited,
                           move |-> r.move, evaluation |-> r.evaluation,
                           is_winning |-> r.evaluation = COP_WIN_VALUE]
    /\ UNCHANGED <<mm_graph, mm_calls>>
    /\ UNCHANGED <<dvars, evars, ovars, pvars>>

\* the positions best_cop_move is called with: any at first, afterwards the cops stand where the
\* last call sent them and the robber has stayed or moved along an edge
NextPositions ==
    IF mm_calls = 0
    THEN CopPlacements(mm_graph) \X mm_graph.nodes
    ELSE IF \E i \in 1..Len(mm_call.move) : mm_call.move[i] \notin mm_graph.nodes
    THEN {}
    ELSE {mm_call.move} \X Range(robber_transitions(FullContext(mm_graph), mm_call.robber))

\* MinimaxEngine.best_cop_move with the pursuit as fixated_step, on the engine's table
BestCopMoveCall ==
    /\ mm_call.kind # "minimax_alpha_beta"
    /\ mm_calls < MaxCalls
    /\ \E pos \in NextPositions, time \in Deadlines :
        \E r \in {best_cop_move(mm_graph, transposition, pos[1], pos[2], MINIMAX_DEPTH, time)} :
            /\ transposition' = r.tt
            /\ \E move \in r.moves :
                 mm_call' = [kind |-> "best_cop_move", cops |-> pos[1], robber |-> pos[2],
                             cop_turn |-> TRUE, depth |-> MINIMAX_DEPTH,
                             in_time |-> time = NoDeadline,
                             move |-> move,
                             evaluation |-> IF r.is_winning THEN COP_WIN_VALUE
                                            ELSE ROBBER_WIN_VALUE,
                             is_winning |-> r.is_winning]
    /\ mm_calls' = mm_calls + 1
    /\ UNCHANGED mm_graph
    /\ UNCHANGED <<dvars, evars, ovars, pvars>>

MinimaxNext ==
    \/ AlphaBetaCall
    \/ BestCopMoveCall

MinimaxSpec == MinimaxInit /\ [][MinimaxNext]_vars

(***************************************************************************)
(* Properties of the minimax search.                                       *)
(***************************************************************************)
\* the cops' and the robber's moves in the game on the graph itself
GameCopMoves(G, cp) == Range(cop_transitions(FullContext(G), cp))
GameRobberMoves(G, rp) == Range(robber_transitions(FullContext(G), rp))

RECURSIVE CopWinSet(_,_,_)
\* plain exhaustive minimax: the positions <<cops, robber>> with k cops to move from which the
\* cops can force the robber onto a cop within d cop moves
CopWinSet(G, k, d) ==
    LET positions == [1..k -> G.nodes] \X G.nodes
    IN  IF d = 0 THEN {s \in positions : is_terminal(s[1], s[2])}
        ELSE LET W == CopWinSet(G, k, d - 1)
             IN  {s \in positions :
                    \/ is_terminal(s[1], s[2])
                    \/ \E m \in GameCopMoves(G, s[1]) :
                         \/ is_terminal(m, s[2])
                         \/ \A x \in GameRobberMoves(G, s[2]) : <<m, x>> \in W}

\* the value of a position by plain exhaustive minimax, in the search's doubled numbers
Exhaustive(G, cp, rp, cop_turn, d) ==
    IF is_terminal(cp, rp) THEN COP_WIN_VALUE
    ELSE IF d <= 0 THEN ROBBER_WIN_VALUE
    ELSE IF cop_turn
    THEN (IF <<cp, rp>> \in CopWinSet(G, Len(cp), d) THEN COP_WIN_VALUE ELSE ROBBER_WIN_VALUE)
    ELSE (IF \A x \in GameRobberMoves(G, rp) : <<cp, x>> \in CopWinSet(G, Len(cp), d)
          THEN COP_WIN_VALUE ELSE ROBBER_WIN_VALUE)

\* the move begins a strategy of the cops that catches, within d cop moves, a robber who may
\* move to any neighbour in G
ForcedCapture(G, cp, rp, move, d) ==
    \/ is_terminal(cp, rp)
    \/ /\ d >= 1
       /\ move \in GameCopMoves(G, cp)
       /\ \/ is_terminal(move, rp)
          \/ \A x \in GameRobberMoves(G, rp) : <<move, x>> \in CopWinSet(G, Len(cp), d - 1)

\* C9: whenever best_cop_move returns is_winning = true, the returned move begins a forced
\* capture on the graph within the search depth.
C9_WinningMeansForcedCapture ==
    (mm_call.kind = "best_cop_move" /\ mm_call.is_winning)
        => ForcedCapture(mm_graph, mm_call.cops, mm_call.robber, mm_call.move, mm_call.depth)

MaxSteps == 6           \* a match of the engine's players takes at most MaxSteps calls of step
EngineCops == 2         \* the engine's players are constructed for 1..EngineCops cops

\* two islands: the path 0 - .. - n-3 and the edge n-2 - n-1, n >= 4
two_islands(n) ==
    [nodes |-> 0..(n - 1),
     order |-> [i \in 1..n |-> i - 1],
     adj |-> [v \in 0..(n - 1) |->
                IF v = n - 2 THEN <<n - 1>>
                ELSE IF v = n - 1 THEN <<n - 2>>
                ELSE SeqFilter(<<v - 1, v + 1>>, 0..(n - 3))]]

\* the star with the centre 0 and n - 1 leaves
star(n) == tree_graph(n, [v \in 1..(n - 1) |-> 0])

\* the graphs the players are constructed on: paths, stars, cycles, and two islands
EngineGraphs ==
    {path_graph(n) : n \in 2..MaxGraphNodes}
        \cup {star(n) : n \in 3..MaxGraphNodes}
        \cup {cycle_graph(n) : n \in 3..MaxGraphNodes}
        \cup {two_islands(MaxGraphNodes)}

RECURSIVE Reach(_,_)
\* the nodes connected to the nodes of S
Reach(G, S) ==
    LET next == S \cup {w \in G.nodes : \E v \in S : w \in Range(G.adj[v])}
    IN  IF next = S THEN S ELSE Reach(G, next)

\* networkx.connected_components
connected_components(G) == {Reach(G, {v}) : v \in G.nodes}

\* graph.subgraph(nodes)
subgraph(G, nodes) ==
    [nodes |-> G.nodes \cap nodes,
     order |-> SeqFilter(G.order, nodes),
     adj |-> [v \in G.nodes \cap nodes |-> SeqFilter(G.adj[v], nodes)]]

RECURSIVE FirstOccurrences(_)
\* the distinct elements of a sequence in the order in which they first occur (dict keys)
FirstOccurrences(s) ==
    IF s = <<>> THEN <<>>
    ELSE <<Head(s)>> \o FirstOccurrences(SelectSeq(Tail(s), LAMBDA x : x # Head(s)))

\* the 0-based place of a node in list(graph.nodes)
NodeIndex(G, v) == (CHOOSE i \in 1..Len(G.order) : G.order[i] = v) - 1

RECURSIVE EdgesFrom(_,_)
\* graph.edges from the i-th node on: an edge is listed at the first of its two nodes
EdgesFrom(G, i) ==
    IF i > Len(G.order) THEN <<>>
    ELSE LET u == G.order[i]
             later == SelectSeq(G.adj[u], LAMBDA w : NodeIndex(G, w) >= i - 1)
         IN  [k \in 1..Len(later) |-> <<u, later[k]>>] \o EdgesFrom(G, i + 1)

(***************************************************************************)
(* abstraction/pooling.py.  The union-find arrays are functions on the     *)
(* node indices 0 .. n-1.  The heap orders the edges by (geometric mean of *)
(* the two degrees, u, v); the product of the degrees orders them alike.   *)
(***************************************************************************)
RECURSIVE find(_,_)
\* find: the root of v (the path compression changes no root)
find(uf_parents, v) == IF uf_parents[v] = v THEN v ELSE find(uf_parents, uf_parents[v])

\* union, by rank
union(pool, u, v) ==
    LET ru == find(pool.uf_parents, u)
        rv == find(pool.uf_parents, v)
    IN  IF pool.uf_rank[ru] > pool.uf_rank[rv] THEN [pool EXCEPT !.uf_parents[rv] = ru]
        ELSE IF pool.uf_rank[ru] < pool.uf_rank[rv] THEN [pool EXCEPT !.uf_parents[ru] = rv]
        ELSE [pool EXCEPT !.uf_parents[rv] = ru, !.uf_rank[ru] = @ + 1]

RECURSIVE HeapOrder(_)
\* heapify and heappop until the heap is empty: the tuples in ascending order
HeapOrder(tuples) ==
    IF tuples = {} THEN <<>>
    ELSE LET least == CHOOSE t \in tuples : \A o \in tuples :
                          \/ t[1] < o[1]
                          \/ t[1] = o[1] /\ t[2] < o[2]
                          \/ t[1] = o[1] /\ t[2] = o[2] /\ t[3] <= o[3]
         IN  <<least>> \o HeapOrder(tuples \ {least})

RECURSIVE perform_vertex_pooling(_,_,_,_)
\* perform_vertex_pooling on the tuples still in the heap
perform_vertex_pooling(strict, tuples, target_n_abstract_nodes, pool) ==
    IF tuples = <<>> \/ pool.n_abstract_nodes <= target_n_abstract_nodes THEN pool
    ELSE LET u == Head(tuples)[2]
             v == Head(tuples)[3]
             ignored == IF strict THEN pool.marked[u] \/ pool.marked[v]
                        ELSE pool.marked[u] = pool.marked[v]
         IN  perform_vertex_pooling(
                 strict, Tail(tuples), target_n_abstract_nodes,
                 IF ignored THEN pool
                 ELSE [union(pool, u, v) EXCEPT !.n_abstract_nodes = @ - 1,
                                                !.marked[u] = TRUE, !.marked[v] = TRUE])

\* make_mean_degree_edge_tuple
make_mean_degree_edge_tuple(G, u, v) ==
    <<Len(G.adj[G.order[u + 1]]) * Len(G.adj[G.order[v + 1]]), u, v>>

\* a pooling that stops after the pairs of free nodes
abstract_vertex_pooling_OnePhase(G) ==
    LET n_nodes == Len(G.order)
        indices == 0..(n_nodes - 1)
        start == [uf_parents |-> [i \in indices |-> i], uf_rank |-> [i \in indices |-> 1],
                  marked |-> [i \in indices |-> FALSE], n_abstract_nodes |-> n_nodes]
        edge_tuples == {make_mean_degree_edge_tuple(G, NodeIndex(G, e[1]), NodeIndex(G, e[2])) :
                            e \in {e \in Range(EdgesFrom(G, 1)) : e[1] # e[2]}}
    IN  With(perform_vertex_pooling(TRUE, HeapOrder(edge_tuples), (n_nodes + 1) \div 2, start),
             LAMBDA phase1 :
                With(SortedSeq({find(phase1.uf_parents, phase1.uf_parents[i]) : i \in indices}),
                     LAMBDA uf_roots :
                        [node \in G.nodes |->
                            (CHOOSE k \in 1..Len(uf_roots) :
                                uf_roots[k] = find(phase1.uf_parents, NodeIndex(G, node))) - 1]))

\* abstract_vertex_pooling: the mapping from the nodes to the abstract nodes.  The roots are
\* numbered as a set of small integers is iterated: in ascending order.
abstract_vertex_pooling(G) ==
    LET n_nodes == Len(G.order)
        indices == 0..(n_nodes - 1)
        target == (n_nodes + 1) \div 2
        start == [uf_parents |-> [i \in indices |-> i], uf_rank |-> [i \in indices |-> 1],
                  marked |-> [i \in indices |-> FALSE], n_abstract_nodes |-> n_nodes]
        edge_tuples == {make_mean_degree_edge_tuple(G, NodeIndex(G, e[1]), NodeIndex(G, e[2])) :
                            e \in {e \in Range(EdgesFrom(G, 1)) : e[1] # e[2]}}
    IN  With(perform_vertex_pooling(TRUE, HeapOrder(edge_tuples), target, start),
             LAMBDA phase1 :
                With(IF phase1.n_abstract_nodes > target
                     THEN perform_vertex_pooling(
                              FALSE,
                              HeapOrder({make_mean_degree_edge_tuple(G, p[1], p[2]) :
                                  p \in {p \in indices \X indices :
                                            /\ ~ phase1.marked[p[1]]
                                            /\ phase1.marked[p[2]]
                                            /\ G.order[p[2] + 1]
                                                  \in Range(G.adj[G.order[p[1] + 1]])}}),
                              target, phase1)
                     ELSE phase1,
                     LAMBDA phase2 :
                        With(SortedSeq({find(phase2.uf_parents, phase2.uf_parents[i]) :
                                            i \in indices}),
                             LAMBDA uf_roots :
                                [node \in G.nodes |->
                                    (CHOOSE k \in 1..Len(uf_roots) :
                                        uf_roots[k] = find(phase2.uf_parents,
                                                           NodeIndex(G, node))) - 1])))

(***************************************************************************)
(* abstraction/graph.py and abstraction/hierarchy.py                       *)
(***************************************************************************)
\* the neighbours of the abstract node a by the edges that start at it only
AbstractNeighbors_Forward(edges, a) ==
    FirstOccurrences(
        SelectSeq([k \in 1..Len(edges) |-> IF edges[k][1] = a THEN edges[k][2] ELSE a],
                  LAMBDA b : b # a))

\* the neighbours add_edges_from gives the abstract node a, in the order of the edges
AbstractNeighbors(edges, a) ==
    FirstOccurrences(
        SelectSeq([k \in 1..Len(edges) |->
                      IF edges[k][1] = a THEN edges[k][2]
                      ELSE IF edges[k][2] = a THEN edges[k][1] ELSE a],
                  LAMBDA b : b # a))

\* an abstraction that keeps the literal mapping of the level before it
GraphAbstraction_Uncomposed(G, prior_literal_vertex_mapping) ==
    With(abstract_vertex_pooling(G),
         LAMBDA vertex_mapping :
            LET values == [i \in 1..Len(G.order) |-> vertex_mapping[G.order[i]]]
                lower_edges == EdgesFrom(G, 1)
                edges == [k \in 1..Len(lower_edges) |->
                            <<vertex_mapping[lower_edges[k][1]],
                              vertex_mapping[lower_edges[k][2]]>>]
            IN  [graph |-> [nodes |-> Range(values),
                            order |-> FirstOccurrences(values),
                            adj |-> [a \in Range(values) |-> AbstractNeighbors(edges, a)]],
                 vertex_mapping |-> vertex_mapping,
                 literal_vertex_mapping |-> prior_literal_vertex_mapping,
                 n_nodes |-> Cardinality(Range(values))])

\* GraphAbstraction.__init__
GraphAbstraction(G, prior_literal_vertex_mapping) ==
    With(abstract_vertex_pooling(G),
         LAMBDA vertex_mapping :
            LET values == [i \in 1..Len(G.order) |-> vertex_mapping[G.order[i]]]
                lower_edges == EdgesFrom(G, 1)
                edges == [k \in 1..Len(lower_edges) |->
                            <<vertex_mapping[lower_edges[k][1]],
                              vertex_mapping[lower_edges[k][2]]>>]
            IN  [graph |-> [nodes |-> Range(values),
                            order |-> FirstOccurrences(values),
                            adj |-> [a \in Range(values) |-> AbstractNeighbors(edges, a)]],
                 vertex_mapping |-> vertex_mapping,
                 literal_vertex_mapping |->
                    [node \in DOMAIN prior_literal_vertex_mapping |->
                        vertex_mapping[prior_literal_vertex_mapping[node]]],
                 n_nodes |-> Cardinality(Range(values))])

ABSTRACTION_SIZE_THRESHOLD == 5

\* a hierarchy that stops with its first level
HierarchyFrom_OneLevel(abstractions) == abstractions

RECURSIVE HierarchyFrom(_)
\* the loop of AbstractionHierarchy.__init__
HierarchyFrom(abstractions) ==
    IF abstractions[Len(abstractions)].n_nodes > ABSTRACTION_SIZE_THRESHOLD
    THEN HierarchyFrom(Append(abstractions,
                              GraphAbstraction(
                                  abstractions[Len(abstractions)].graph,
                                  abstractions[Len(abstractions)].literal_vertex_mapping)))
    ELSE abstractions

\* AbstractionHierarchy.__init__: the list abstractions; a level is its 1-based place in it
AbstractionHierarchy(G) == HierarchyFrom(<<GraphAbstraction(G, [node \in G.nodes |-> node])>>)

\* no abstraction (Python's None where a level is expected)
NoLevel == 0

\* highest_fitting_abstraction
highest_fitting_abstraction(abstractions, match(_)) ==
    LET fitting == {level \in 1..Len(abstractions) : match(abstractions[level])}
    IN  IF fitting = {} THEN NoLevel
        ELSE CHOOSE level \in fitting : \A other \in fitting : other <= level

\* highest_undecided_abstraction
highest_undecided_abstraction(abstractions, cp, rp) ==
    highest_fitting_abstraction(
        abstractions,
        LAMBDA abstraction :
            abstraction.literal_vertex_mapping[rp]
                \notin {abstraction.literal_vertex_mapping[cp[i]] : i \in 1..Len(cp)})

\* highest_abstraction_lower_than
highest_abstraction_lower_than(abstractions, level) ==
    highest_fitting_abstraction(abstractions,
                                LAMBDA x : x.n_nodes > abstractions[level].n_nodes)

RECURSIVE decreasing_abstractions_from(_,_,_)
\* decreasing_abstractions_from: the levels from the highest on down to the first (from = the
\* number of levels) that have at least as many nodes as the given level
decreasing_abstractions_from(abstractions, level, from) ==
    IF from = 0 THEN <<>>
    ELSE (IF abstractions[level].n_nodes <= abstractions[from].n_nodes THEN <<from>> ELSE <<>>)
            \o decreasing_abstractions_from(abstractions, level, from - 1)

\* an inverse mapping that keeps only the first node pooled into the abstract node
inverse_vertex_mapping_First(below, abstraction, abstract_node) ==
    {Head(SelectSeq(below.order, LAMBDA node : abstraction.vertex_mapping[node] = abstract_node))}

\* inverse_vertex_mapping[abstract_node]: the nodes pooled into it, of the graph below
inverse_vertex_mapping(below, abstraction, abstract_node) ==
    Range(SelectSeq(below.order, LAMBDA node : abstraction.vertex_mapping[node] = abstract_node))

(***************************************************************************)
(* util/search.py: multi_target_shortest_path                              *)
(***************************************************************************)
RECURSIVE trace_path(_,_)
\* trace_path: path starts as the target's end of the path
trace_path(predecessors, path) ==
    IF Head(path) \in DOMAIN predecessors
    THEN trace_path(predecessors, <<predecessors[Head(path)]>> \o path)
    ELSE path

RECURSIVE BreadthFirst(_,_,_,_,_,_)
\* the loop `while discovered_nodes`; <<>> where the search raises (no path, or a node that is
\* not in the sub graph)
BreadthFirst(G, nodes, targets, discovered_nodes, visited, predecessors) ==
    IF discovered_nodes = <<>> THEN <<>>
    ELSE LET node == Head(discovered_nodes)
             unvisited_neighbors ==
                SelectSeq(Neighbors(G, nodes, node),
                          LAMBDA v : v \notin visited /\ v # node /\ v \notin DOMAIN predecessors)
         IN  IF node \in visited
             THEN BreadthFirst(G, nodes, targets, Tail(discovered_nodes), visited, predecessors)
             ELSE IF node \in targets THEN trace_path(predecessors, <<node>>)
             ELSE IF node \notin nodes \cap G.nodes THEN <<>>
             ELSE BreadthFirst(G, nodes, targets, Tail(discovered_nodes) \o unvisited_neighbors,
                               visited \cup {node},
                               [v \in Range(unvisited_neighbors) |-> node] @@ predecessors)

\* multi_target_shortest_path on graph.subgraph(nodes)
multi_target_shortest_path(G, nodes, source, targets) ==
    BreadthFirst(G, nodes, targets, <<source>>, {}, <<>>)

(***************************************************************************)
(* strategy/abstract_minimax_disjoint_refinement.py.  A strategy is the    *)
(* record [graph, abstractions, literal_table, tables, minimax_probability,*)
(* minimax_timeout_probability]; tables[level] is the table of the engine  *)
(* of that level.  A probability 2^-k is kept as k, the probability 0 as   *)
(* NEVER.                                                                  *)
(***************************************************************************)
NEVER == -1
CERTAIN == 0

\* probability /= 2
Halved(probability) == IF probability = NEVER THEN NEVER ELSE probability + 1

\* random.random() < probability: what the comparison can give
Random(probability) ==
    IF probability = NEVER THEN {FALSE} ELSE IF probability = CERTAIN THEN {TRUE} ELSE BOOLEAN

\* probabilities[key] of a defaultdict
Probability(probabilities, key, default) ==
    IF key \in DOMAIN probabilities THEN probabilities[key] ELSE default

\* AbstractMinimaxDisjointRefinementCopsStrategy.__init__ (the warm-up finds its time used up)
NewStrategy(G) ==
    With(AbstractionHierarchy(G),
         LAMBDA abstractions :
            [graph |-> G, abstractions |-> abstractions, literal_table |-> EmptyTable,
             tables |-> [level \in 1..Len(abstractions) |-> EmptyTable],
             minimax_probability |-> <<>>, minimax_timeout_probability |-> <<>>])

\* the graph below a level: of the next lower abstraction, or the strategy's graph
GraphBelow(strategy, level) ==
    IF level = 1 THEN strategy.graph ELSE strategy.abstractions[level - 1].graph

RECURSIVE RefineThrough(_,_,_,_,_,_)
\* abstract_refinement_search, the loop over the decreasing levels from the k-th on: the
\* targets and the nodes for the search in the actual graph
RefineThrough(strategy, levels, k, cop_position, cop_abstract_targets, refinement_nodes) ==
    IF k > Len(levels)
    THEN [targets |-> cop_abstract_targets, nodes |-> refinement_nodes]
    ELSE With(strategy.abstractions[levels[k]],
              LAMBDA lower_abstraction :
                With(multi_target_shortest_path(
                         lower_abstraction.graph, refinement_nodes,
                         lower_abstraction.literal_vertex_mapping[cop_position],
                         cop_abstract_targets),
                     LAMBDA path :
                        IF path = <<>> THEN [targets |-> {}, nodes |-> {}]
                        ELSE RefineThrough(
                                 strategy, levels, k + 1, cop_position,
                                 inverse_vertex_mapping(GraphBelow(strategy, levels[k]),
                                                        lower_abstraction, path[Len(path)]),
                                 UNION {inverse_vertex_mapping(GraphBelow(strategy, levels[k]),
                                                               lower_abstraction, a) :
                                            a \in Range(path)})))

\* abstract_refinement_search for one cop: its step, or None where the search raises
RefinedStep(strategy, level, cop_position, abstract_target) ==
    With(RefineThrough(strategy,
                       decreasing_abstractions_from(strategy.abstractions, level,
                                                    Len(strategy.abstractions)),
                       1, cop_position, {abstract_target},
                       strategy.abstractions[level].graph.nodes),
         LAMBDA r :
            With(multi_target_shortest_path(strategy.graph, r.nodes, cop_position, r.targets),
                 LAMBDA path : IF path = <<>> THEN None ELSE first_step_on_path(path)))

\* abstract_refinement_search: the move, or <<>> where it raises
abstract_refinement_search(strategy, level, cp, abstract_targets) ==
    With([i \in 1..Len(cp) |-> RefinedStep(strategy, level, cp[i], abstract_targets[i])],
         LAMBDA move : IF None \in Range(move) THEN <<>> ELSE move)

\* abstract_minimax: best_cop_move of the level's engine on the abstract positions
abstract_minimax(strategy, level, cp, rp, time) ==
    best_cop_move(strategy.abstractions[level].graph, strategy.tables[level],
                  [i \in 1..Len(cp) |-> strategy.abstractions[level].literal_vertex_mapping[cp[i]]],
                  strategy.abstractions[level].literal_vertex_mapping[rp],
                  MINIMAX_DEPTH, time)

\* what a step returns: the strategy afterwards, the move (<<>>: it raised), and the way taken
Returned(strategy, move, way) == [strategy |-> strategy, move |-> move, way |-> way]

RECURSIVE Descend(_,_,_,_,_,_)
\* minimax_refinement, the loop `while is_winning and lower_abstraction is not None` entered
\* with is_winning: the set of what the step may return.  The deadline may meet each search in
\* each of the ways of Deadlines, and time.time() <= finish_time at the end of a round may fail
\* (late) or not.
Descend(strategy, cp, rp, abstraction, lower_abstraction, target_positions) ==
    LET lower == highest_abstraction_lower_than(strategy.abstractions, lower_abstraction)
        timeout_key == <<lower, cp, rp>>
        probability == Probability(strategy.minimax_timeout_probability, timeout_key, NEVER)
        WithProbability(s, p) ==
            [s EXCEPT !.minimax_timeout_probability = (timeout_key :> p) @@ @]
        started == WithProbability(strategy, CERTAIN)
        AtEnd(s, late) == IF late THEN s ELSE WithProbability(s, NEVER)
        Refined(s) ==
            Returned(s, abstract_refinement_search(strategy, abstraction, cp, target_positions),
                     "refinement")
    IN  UNION {
            IF stops
            THEN {Refined(WithProbability(strategy, Halved(probability)))}
            ELSE IF lower = NoLevel
            THEN UNION {
                    With(best_cop_move(strategy.graph, strategy.literal_table, cp, rp,
                                       MINIMAX_DEPTH, time),
                         LAMBDA r :
                            IF r.is_winning
                            THEN {Returned([WithProbability(started, NEVER)
                                                EXCEPT !.literal_table = r.tt], move,
                                           "literal_minimax") : move \in r.moves}
                            ELSE {Refined(AtEnd([started EXCEPT !.literal_table = r.tt], late)) :
                                    late \in BOOLEAN}) :
                    time \in Deadlines}
            ELSE UNION {
                    With(abstract_minimax(started, lower, cp, rp, time),
                         LAMBDA r :
                            IF r.is_winning
                            THEN UNION {Descend(AtEnd([started EXCEPT !.tables[lower] = r.tt],
                                                      late),
                                                cp, rp, lower, lower, new_target_positions) :
                                            new_target_positions \in r.moves, late \in BOOLEAN}
                            ELSE {Refined(AtEnd([started EXCEPT !.tables[lower] = r.tt], late)) :
                                    late \in BOOLEAN}) :
                    time \in Deadlines} :
            stops \in Random(probability)}

\* a minimax_refinement that hands on the stay-in-place answer of a search that is not winning
minimax_refinement_StayInPlace(strategy, cp, rp, abstraction) ==
    UNION {
        With(abstract_minimax(strategy, abstraction, cp, rp, time),
             LAMBDA r :
                IF ~ r.is_winning
                THEN {Returned([strategy EXCEPT !.tables[abstraction] = r.tt], cp, "not_winning")}
                ELSE UNION {Descend([strategy EXCEPT !.tables[abstraction] = r.tt], cp, rp,
                                    abstraction, abstraction, target_positions) :
                                target_positions \in r.moves}) :
        time \in Deadlines}

\* minimax_refinement: the set of what the step may return
minimax_refinement(strategy, cp, rp, abstraction) ==
    UNION {
        With(abstract_minimax(strategy, abstraction, cp, rp, time),
             LAMBDA r :
                IF ~ r.is_winning
                THEN {Returned([strategy EXCEPT !.tables[abstraction] = r.tt],
                               disjoint_search_steps(strategy.graph, cp, rp), "not_winning")}
                ELSE UNION {Descend([strategy EXCEPT !.tables[abstraction] = r.tt], cp, rp,
                                    abstraction, abstraction, target_positions) :
                                target_positions \in r.moves}) :
        time \in Deadlines}

\* a step that runs the refinement without halving the probability of its key
strategy_step_Unhalved(strategy, cp, rp) ==
    LET minimax_abstraction == highest_undecided_abstraction(strategy.abstractions, cp, rp)
        position_key == <<rp>> \o cp
        probability == Probability(strategy.minimax_probability, position_key, CERTAIN)
    IN  UNION {
            IF minimax_abstraction # NoLevel /\ searches
            THEN minimax_refinement(strategy, cp, rp, minimax_abstraction)
            ELSE {Returned(strategy, disjoint_search_steps(strategy.graph, cp, rp),
                           IF minimax_abstraction = NoLevel THEN "decided" ELSE "skipped")} :
            searches \in Random(probability)}

\* AbstractMinimaxDisjointRefinementCopsStrategy.step: the set of what it may return
strategy_step(strategy, cp, rp) ==
    LET minimax_abstraction == highest_undecided_abstraction(strategy.abstractions, cp, rp)
        position_key == <<rp>> \o cp
        probability == Probability(strategy.minimax_probability, position_key, CERTAIN)
    IN  UNION {
            IF minimax_abstraction # NoLevel /\ searches
            THEN minimax_refinement(
                     [strategy EXCEPT !.minimax_probability =
                                          (position_key :> Halved(probability)) @@ @],
                     cp, rp, minimax_abstraction)
            ELSE {Returned(strategy, disjoint_search_steps(strategy.graph, cp, rp),
                           IF minimax_abstraction = NoLevel THEN "decided" ELSE "skipped")} :
            searches \in Random(probability)}

(***************************************************************************)
(* strategy/contour_relaxation.py.  The contours are sets of nodes; a set  *)
(* of small non-negative integers is iterated in ascending order.          *)
(***************************************************************************)
RECURSIVE ExpandCopContour(_,_,_,_)
\* lines 89-92, the loop over the nodes left of the cop contour: [visited, next]
ExpandCopContour(G, nodes, visited, next_cop_contour) ==
    IF nodes = <<>> THEN [visited |-> visited, next |-> next_cop_contour]
    ELSE IF Head(nodes) \in visited
    THEN ExpandCopContour(G, Tail(nodes), visited, next_cop_contour)
    ELSE ExpandCopContour(G, Tail(nodes), visited \cup {Head(nodes)},
                          next_cop_contour
                              \cup (Range(G.adj[Head(nodes)]) \ (visited \cup {Head(nodes)})))

RECURSIVE ExpandRobberContour(_,_,_)
\* lines 95-102, the loop over the nodes left of the robber contour
ExpandRobberContour(G, nodes, s) ==
    IF nodes = <<>> THEN s
    ELSE IF Head(nodes) \in s.visited THEN ExpandRobberContour(G, Tail(nodes), s)
    ELSE LET node == Head(nodes)
             neighbors == Range(G.adj[node]) \ (s.visited \cup {node})
         IN  ExpandRobberContour(G, Tail(nodes),
                                 [visited |-> s.visited \cup {node},
                                  next |-> s.next \cup neighbors,
                                  robber_predecessor |->
                                      [v \in neighbors |-> node] @@ s.robber_predecessor,
                                  robber_cover_node |-> node])

RECURSIVE get_robber_move(_,_,_)
get_robber_move(robber_predecessor, rp, node) ==
    IF node \in DOMAIN robber_predecessor /\ robber_predecessor[node] # rp
    THEN get_robber_move(robber_predecessor, rp, robber_predecessor[node])
    ELSE node

RECURSIVE RelaxContours(_,_,_,_,_,_,_,_)
\* the loop `while cop_contour and robber_contour`, and the return
RelaxContours(G, rp, cop_contour, robber_contour, visited, robber_predecessor,
              robber_cover_node, loops) ==
    IF cop_contour = {} \/ robber_contour = {} \/ ~ LoopStarts(loops)
    THEN get_robber_move(robber_predecessor, rp, robber_cover_node)
    ELSE With(ExpandCopContour(G, SortedSeq(cop_contour), visited, {}),
              LAMBDA c :
                With(ExpandRobberContour(G, SortedSeq(robber_contour),
                                         [visited |-> c.visited, next |-> {},
                                          robber_predecessor |-> robber_predecessor,
                                          robber_cover_node |-> robber_cover_node]),
                     LAMBDA r :
                        RelaxContours(G, rp, c.next, r.next, r.visited, r.robber_predecessor,
                                      r.robber_cover_node, Spend(loops))))

\* ContourRelaxationRobberStrategy.step
contour_relaxation_step(G, cp, rp, loops) ==
    RelaxContours(G, rp, Range(cp), {rp}, {}, <<>>, rp, loops)

(***************************************************************************)
(* engine/cops.py and engine/robber.py.  The Cops object is the record     *)
(* [graph, cops_count, components, cop_distribution, n_cops,               *)
(* cop_positions, strategies] with one entry per component in the lists,   *)
(* the Robber object the record [graph, robber_position].                  *)
(***************************************************************************)
\* the lists a set can be listed as (list(set(...)) of objects)
Listings(S) == {l \in [1..Cardinality(S) -> S] : Range(l) = S}

RECURSIVE Chain(_)
\* the concatenation of a list of lists
Chain(lists) == IF lists = <<>> THEN <<>> ELSE Head(lists) \o Chain(Tail(lists))

\* the positions chained from the last component to the first
chained_cop_positions_Backwards(player) ==
    Chain([c \in 1..Len(player.cop_positions) |->
              player.cop_positions[Len(player.cop_positions) + 1 - c]])

\* Cops.chained_cop_positions
chained_cop_positions(player) == Chain(player.cop_positions)

\* component_mapping[node], as the place of the component in components
component_mapping(player, node) ==
    CHOOSE c \in 1..Len(player.components) : node \in player.components[c]

\* no strategy (None): the component has no cop
NoStrategy == [graph |-> NoGraph]

RECURSIVE trap_free_subgraph(_)
\* trap_free_subgraph: the nodes of degree 0 or 1 are removed again and again
trap_free_subgraph(G) ==
    LET nodes == {node \in G.nodes : Len(G.adj[node]) >= 2}
    IN  IF nodes = G.nodes THEN G ELSE trap_free_subgraph(subgraph(G, nodes))

RECURSIVE SumOver(_,_)
\* the sum of the numbers value[x], x in S
SumOver(S, value) ==
    IF S = {} THEN 0
    ELSE LET x == CHOOSE x \in S : TRUE IN value[x] + SumOver(S \ {x}, value)

\* math.sqrt(n) in hundredths
SqrtHundredths(n) == CHOOSE s \in 0..(100 * n) : s * s <= 10000 * n /\ 10000 * n < (s + 1) * (s + 1)

\* cop_number of component_cop_distribution for one component, as the fraction <<p, q>>:
\* 0 without a trap free node; the mean degree if it is at most the square root of the number
\* of trap free nodes; else sqrt_nodes * (1 - (mean_degree - sqrt_nodes) / (n_nodes - sqrt_nodes)),
\* which is sqrt_nodes * (n_nodes - mean_degree) / (n_nodes - sqrt_nodes), with the root taken
\* in hundredths
cop_number(G) ==
    With(trap_free_subgraph(G),
         LAMBDA trap_free_component :
            LET n_nodes == Cardinality(trap_free_component.nodes)
                degrees == SumOver(trap_free_component.nodes,
                                   [node \in trap_free_component.nodes |->
                                        Len(trap_free_component.adj[node])])
            IN  IF n_nodes = 0 THEN <<0, 1>>
                ELSE IF degrees * degrees <= n_nodes * n_nodes * n_nodes THEN <<degrees, n_nodes>>
                ELSE <<SqrtHundredths(n_nodes) * (n_nodes * n_nodes - degrees),
                       n_nodes * (100 * n_nodes - SqrtHundredths(n_nodes))>>)

RECURSIVE Gcd(_,_)
\* the greatest common divisor
Gcd(a, b) == IF b = 0 THEN a ELSE Gcd(b, a % b)

RECURSIVE LcmOver(_,_)
\* the least common multiple of the numbers value[x], x in S
LcmOver(S, value) ==
    IF S = {} THEN 1
    ELSE LET x == CHOOSE x \in S : TRUE
             rest == LcmOver(S \ {x}, value)
         IN  (value[x] \div Gcd(value[x], rest)) * rest

\* component_cop_distribution: the proportion of the c-th component is weight[c] / total.  The
\* cop numbers are put on their least common denominator; if they are all 0 the numbers of
\* nodes are taken.
component_cop_distribution(G, components) ==
    With([c \in 1..Len(components) |-> cop_number(subgraph(G, components[c]))],
         LAMBDA cop_numbers :
            LET places == 1..Len(components)
                denominator == LcmOver(places, [c \in places |-> cop_numbers[c][2]])
                scaled == [c \in places |->
                              cop_numbers[c][1] * (denominator \div cop_numbers[c][2])]
                sizes == [c \in places |-> Cardinality(components[c])]
            IN  IF SumOver(places, scaled) = 0
                THEN [weight |-> sizes, total |-> SumOver(places, sizes)]
                ELSE [weight |-> scaled, total |-> SumOver(places, scaled)])

\* the places sorted(..., key) lists among its first k: fewer than k places have a smaller key,
\* or the same key and an earlier place
FirstSorted(k, key) ==
    {c \in DOMAIN key :
        Cardinality({o \in DOMAIN key : key[o] < key[c] \/ (key[o] = key[c] /\ o < c)}) < k}

\* a distribution that gives the cops left after the floors to the biggest remainders
component_n_cops_BiggestRemainder(components, cop_distribution, count) ==
    LET places == 1..Len(components)
        n_components == Len(components)
        rest == count - n_components
        floors == [c \in places |->
                      1 + (rest * cop_distribution.weight[c]) \div cop_distribution.total]
    IN  IF count < n_components
        THEN [c \in places |->
                IF c \in FirstSorted(count, [o \in places |-> Cardinality(components[o])])
                THEN 1 ELSE 0]
        ELSE [c \in places |->
                floors[c]
                    + (IF c \in FirstSorted(count - SumOver(places, floors),
                                            [o \in places |->
                                                0 - ((rest * cop_distribution.weight[o])
                                                        % cop_distribution.total)])
                       THEN 1 ELSE 0)]

\* n_cops of Cops.__init__: with fewer cops than components the smallest components get one
\* each; else each gets one and floor(rest * proportion), and nlargest picks the components of
\* the biggest proportion for the cops still left
component_n_cops(components, cop_distribution, count) ==
    LET places == 1..Len(components)
        n_components == Len(components)
        rest == count - n_components
        floors == [c \in places |->
                      1 + (rest * cop_distribution.weight[c]) \div cop_distribution.total]
    IN  IF count < n_components
        THEN [c \in places |->
                IF c \in FirstSorted(count, [o \in places |-> Cardinality(components[o])])
                THEN 1 ELSE 0]
        ELSE [c \in places |->
                floors[c]
                    + (IF c \in FirstSorted(count - SumOver(places, floors),
                                            [o \in places |-> 0 - cop_distribution.weight[o]])
                       THEN 1 ELSE 0)]

\* Cops.__init__, with the components listed as `components`
NewCops(G, components, count) ==
    With(component_cop_distribution(G, components),
         LAMBDA cop_distribution :
            With(component_n_cops(components, cop_distribution, count),
                 LAMBDA cops_of :
                    [graph |-> G, cops_count |-> count, components |-> components,
                     cop_distribution |-> cop_distribution,
                     n_cops |-> cops_of,
                     cop_positions |-> [c \in 1..Len(components) |-> <<>>],
                     strategies |-> [c \in 1..Len(components) |->
                                        IF cops_of[c] > 0
                                        THEN NewStrategy(subgraph(G, components[c]))
                                        ELSE NoStrategy]]))

\* Cops.__init__ and Robber.__init__ on the same graph
EngineInit ==
    /\ DriverIdle
    /\ MinimaxIdle
    /\ PartsIdle
    /\ \E G \in EngineGraphs :
        /\ \E components \in Listings(connected_components(G)) :
            \E count \in 1..EngineCops :
                cops_player = NewCops(G, components, count)
        /\ robber_player = [graph |-> G, robber_position |-> -1]
    /\ engine_call = NoEngineCall
    /\ engine_turn = "get_init_positions"
    /\ engine_steps = 0

\* the positions get_init_positions may give a component: all its nodes and one node again and
\* again if the cops cover it, else n_cops nodes the strategy chose as centers (which of the
\* nodes the k-center approximations take is left open)
InitPositions(G, nodes, n_cops) ==
    IF n_cops >= Cardinality(nodes)
    THEN {SortedSeq(nodes) \o [i \in 1..(n_cops - Cardinality(nodes)) |-> node] : node \in nodes}
    ELSE {positions \in [1..n_cops -> nodes] :
            \A i, j \in 1..n_cops : i # j => positions[i] # positions[j]}

RECURSIVE InitPositionLists(_,_)
\* the lists of positions get_init_positions may give the components from the c-th on
InitPositionLists(player, c) ==
    IF c > Len(player.components) THEN {<<>>}
    ELSE {<<positions>> \o others :
            positions \in InitPositions(player.graph, player.components[c], player.n_cops[c]),
            others \in InitPositionLists(player, c + 1)}

\* Cops.get_init_positions
CopsGetInitPositions ==
    /\ engine_turn = "get_init_positions"
    /\ \E positions \in InitPositionLists(cops_player, 1) :
        /\ cops_player' = [cops_player EXCEPT !.cop_positions = positions]
        /\ engine_call' = [NoEngineCall EXCEPT !.kind = "Cops.get_init_positions",
                                               !.returned = Chain(positions)]
    /\ engine_turn' = "get_init_position"
    /\ UNCHANGED <<robber_player, engine_steps>>
    /\ UNCHANGED <<dvars, mvars, ovars, pvars>>

\* Robber.get_init_position: the first node of a component without cops if there is one, else
\* a node the strategy of some component chose (any node when its time is used up)
RobberGetInitPosition ==
    /\ engine_turn = "get_init_position"
    /\ LET free == {c \in 1..Len(cops_player.components) : cops_player.n_cops[c] = 0}
       IN  \E node \in cops_player.graph.nodes :
            /\ free # {} => \E c \in free : node = SortedSeq(cops_player.components[c])[1]
            /\ robber_player' = [robber_player EXCEPT !.robber_position = node]
            /\ engine_call' = [NoEngineCall EXCEPT !.kind = "Robber.get_init_position",
                                                   !.cops_before = chained_cop_positions(cops_player),
                                                   !.returned = <<node>>]
    /\ engine_turn' = "Robber.step"
    /\ UNCHANGED <<cops_player, engine_steps>>
    /\ UNCHANGED <<dvars, mvars, ovars, pvars>>

\* Robber.step, called with the cops' positions
RobberStep ==
    /\ engine_turn = "Robber.step"
    /\ engine_steps < MaxSteps
    /\ \E loops \in Budgets :
        LET rp == robber_player.robber_position
            component == Reach(robber_player.graph, {rp})
            cp == SeqFilter(chained_cop_positions(cops_player), component)
            node == IF Len(cp) > 0
                    THEN contour_relaxation_step(subgraph(robber_player.graph, component),
                                                 cp, rp, loops)
                    ELSE rp
        IN  /\ robber_player' = [robber_player EXCEPT !.robber_position = node]
            /\ engine_call' = [NoEngineCall EXCEPT !.kind = "Robber.step",
                                                   !.cops_before = chained_cop_positions(cops_player),
                                                   !.robber_before = rp,
                                                   !.returned = <<node>>,
                                                   !.way = IF Len(cp) > 0 THEN "contour_relaxation"
                                                           ELSE "no_cops"]
    /\ engine_turn' = "Cops.step"
    /\ engine_steps' = engine_steps + 1
    /\ UNCHANGED cops_player
    /\ UNCHANGED <<dvars, mvars, ovars, pvars>>

\* Cops.step, called with the robber's position
CopsStep ==
    /\ engine_turn = "Cops.step"
    /\ engine_steps < MaxSteps
    /\ LET rp == robber_player.robber_position
           component == component_mapping(cops_player, rp)
           cp == cops_player.cop_positions[component]
           called == [NoEngineCall EXCEPT !.kind = "Cops.step",
                                          !.cops_before = chained_cop_positions(cops_player),
                                          !.robber_before = rp,
                                          !.component = component]
       IN  IF rp \in Range(cp) \/ cops_player.n_cops[component] = 0
           THEN /\ cops_player' = cops_player
                /\ engine_call' = [called EXCEPT !.returned = chained_cop_positions(cops_player),
                                                 !.way = "no_step"]
                /\ engine_turn' = "Robber.step"
           ELSE \E r \in strategy_step(cops_player.strategies[component], cp, rp) :
                    IF r.move = <<>>
                    THEN /\ cops_player' = [cops_player EXCEPT !.strategies[component] = r.strategy]
                         /\ engine_call' = [called EXCEPT !.raised = TRUE, !.way = r.way]
                         /\ engine_turn' = "raised"
                    ELSE /\ cops_player' = [cops_player EXCEPT
                                                !.strategies[component] = r.strategy,
                                                !.cop_positions[component] = r.move]
                         /\ engine_call' = [called EXCEPT
                                                !.returned = chained_cop_positions(cops_player'),
                                                !.way = r.way]
                         /\ engine_turn' = "Robber.step"
    /\ engine_steps' = engine_steps + 1
    /\ UNCHANGED robber_player
    /\ UNCHANGED <<dvars, mvars, ovars, pvars>>

EngineNext ==
    \/ CopsGetInitPositions
    \/ RobberGetInitPosition
    \/ RobberStep
    \/ CopsStep

EngineSpec == EngineInit /\ [][EngineNext]_vars

(***************************************************************************)
(* Properties of the engine's players.                                     *)
(***************************************************************************)
\* node `to` is node `from` or a neighbour of it in the players' graph
StaysOrSteps(from, to) ==
    /\ from \in cops_player.graph.nodes
    /\ to \in cops_player.graph.nodes
    /\ (to = from \/ to \in Range(cops_player.graph.adj[from]))

\* C1: every list Cops.step returns has one node per cop, each the cop's last node or a
\* neighbour of it, and every node Robber.step returns is the robber's last node or a neighbour
\* of it, whichever way the step took.
C1_StepsAreLegal ==
    /\ (engine_call.kind = "Cops.step" /\ ~ engine_call.raised)
        => /\ Len(engine_call.returned) = Len(Chain(cops_player.cop_positions))
           /\ Len(engine_call.returned) = Len(engine_call.cops_before)
           /\ \A i \in 1..Len(engine_call.returned) :
                StaysOrSteps(engine_call.cops_before[i], engine_call.returned[i])
    /\ (engine_call.kind = "Robber.step" /\ ~ engine_call.raised)
        => /\ Len(engine_call.returned) = 1
           /\ StaysOrSteps(engine_call.robber_before, engine_call.returned[1])

\* a cop moved on the refined path of an abstract minimax solution
C1_Witness ==
    /\ engine_call.kind = "Cops.step" /\ ~ engine_call.raised
    /\ engine_call.way = "refinement"
    /\ engine_call.returned # engine_call.cops_before

\* the cops of the robber's component before the last call of Cops.step, and after it
ComponentBefore ==
    SeqFilter(engine_call.cops_before, cops_player.components[engine_call.component])
ComponentAfter ==
    SeqFilter(engine_call.returned, cops_player.components[engine_call.component])

\* C2: when no abstraction is undecided, and when the minimax search on the highest undecided
\* abstraction is not winning for the cops, the strategy's step returns the move of the pursuit
\* on preferably disjoint paths from the cops' positions to the robber.
C2_PursuitWhenNotWinning ==
    (engine_call.kind = "Cops.step" /\ engine_call.way \in {"decided", "not_winning"})
        => /\ ~ engine_call.raised
           /\ ComponentAfter =
                disjoint_search_steps(
                    subgraph(cops_player.graph, cops_player.components[engine_call.component]),
                    ComponentBefore, engine_call.robber_before)

\* the abstract search was not winning and the pursuit moved a cop
C2_Witness ==
    /\ engine_call.kind = "Cops.step" /\ engine_call.way = "not_winning"
    /\ ~ engine_call.raised
    /\ ComponentAfter # ComponentBefore

(***************************************************************************)
(***************************************************************************)
(* minimax/zobrist.py with its random numbers.  The 64-bit numbers are     *)
(* words of KeyBits bits; the tables numpy draws are those of a small      *)
(* family of generators, one per seed.                                     *)
(***************************************************************************)
(***************************************************************************)
ZNodes == 2             \* the table's graph has the nodes 0 .. ZNodes-1
ZCops == 3              \* n_cops of the table; the positions hashed are of 1..ZCops cops
KeyBits == 3            \* the random numbers have KeyBits bits
MaxSeed == 1            \* the generator is seeded with one of 0..MaxSeed
MaxWrites == 2          \* at most MaxWrites writes are made, of the depths 0..MaxWrites-1

ZobristNodes == 0..(ZNodes - 1)
Words == 2 ^ KeyBits

RECURSIVE Xor(_,_)
\* operator.xor on two words
Xor(a, b) ==
    IF a = 0 THEN b
    ELSE IF b = 0 THEN a
    ELSE ((a + b) % 2) + 2 * Xor(a \div 2, b \div 2)

\* the i-th number the generator seeded with seed draws
generate_random_keys(seed, i) == ((2 * seed + 3) * (i * i + i + 1) + seed * i) % Words

\* ZobristTranspositionTable.__init__: the drawn numbers and the empty table; writes lists what
\* was written, call is the last call
NewZobrist(seed) ==
    [constructed |-> TRUE,
     cop_keys |-> [v \in ZobristNodes |->
                      [k \in 1..ZCops |-> generate_random_keys(seed, v * ZCops + k)]],
     robber_keys |-> [v \in ZobristNodes |-> generate_random_keys(seed, ZNodes * ZCops + v + 1)],
     cop_turn_key |-> [t \in BOOLEAN |->
                          generate_random_keys(seed, ZNodes * ZCops + ZNodes
                                                        + (IF t THEN 1 ELSE 2))],
     table |-> EmptyTable,
     writes |-> <<>>,
     call |-> [kind |-> "none"]]

RECURSIVE Reduce(_,_)
\* reduce(xor, words) from the value so far on
Reduce(value, words) ==
    IF words = <<>> THEN value ELSE Reduce(Xor(value, Head(words)), Tail(words))

\* a key that takes a cop's number by the cop's place in the list
key_ByPlace(z, cp, rp, cop_turn) ==
    Xor(Xor(Reduce(z.cop_keys[cp[1]][1],
                   [i \in 1..(Len(cp) - 1) |-> z.cop_keys[cp[i + 1]][i + 1]]),
            z.robber_keys[rp]),
        z.cop_turn_key[cop_turn])

\* ZobristTranspositionTable.key: one number per node with cops on it, taken by their count
key(z, cp, rp, cop_turn) ==
    LET freq == Counter(cp)
        positions == FirstOccurrences(cp)
        cop_keys == [i \in 1..Len(positions) |-> z.cop_keys[positions[i]][freq[positions[i]]]]
    IN  Xor(Xor(Reduce(Head(cop_keys), Tail(cop_keys)), z.robber_keys[rp]),
            z.cop_turn_key[cop_turn])

\* the lists of cop positions that are hashed
ZCopLists == UNION {[1..k -> ZobristNodes] : k \in 1..ZCops}

ZobristFrame == UNCHANGED <<dvars, mvars, evars, repair_call, hierarchy, loop, pvars>>

ZobristInit ==
    /\ DriverIdle
    /\ MinimaxIdle
    /\ EngineIdle
    /\ repair_call = NoRepairCall
    /\ hierarchy = NoHierarchy
    /\ loop = NoLoop
    /\ MorePartsIdle
    /\ \E seed \in 0..MaxSeed : zobrist = NewZobrist(seed)

\* transposition[cop_positions, robber_position, cop_turn, depth] = move, evaluation, as
\* minimax_alpha_beta writes it for a state it searched no further: the move is to stay
ZobristSetItem ==
    /\ Len(zobrist.writes) < MaxWrites
    /\ \E cp \in ZCopLists, rp \in ZobristNodes, cop_turn \in BOOLEAN, depth \in 0..(MaxWrites - 1),
          evaluation \in {ROBBER_WIN_VALUE, COP_WIN_VALUE} :
        LET k == key(zobrist, cp, rp, cop_turn)
            move == IF cop_turn THEN cp ELSE <<rp>>
        IN  zobrist' =
                [zobrist EXCEPT
                    !.table = SetItem(@, k, depth, move, evaluation),
                    !.writes = Append(@, [key |-> k, cops |-> cp, robber |-> rp,
                                          cop_turn |-> cop_turn, depth |-> depth, move |-> move,
                                          evaluation |-> evaluation]),
                    !.call = [kind |-> "setitem", key |-> k, depth |-> depth,
                              before |-> zobrist.table]]
    /\ ZobristFrame

ZobristNext == ZobristSetItem

ZobristSpec == ZobristInit /\ [][ZobristNext]_vars

\* the lists that are the list cp put in another order
Reorderings(cp) == {other \in [1..Len(cp) -> Range(cp)] : Counter(other) = Counter(cp)}

\* C11: the key of a position is the same for every order of the cops, several cops on one
\* node included, and a lookup with the cops in any order finds the entry that was written for
\* them in another order.
C11_KeyIgnoresCopOrder ==
    \A i \in 1..Len(zobrist.writes) :
        \A other \in Reorderings(zobrist.writes[i].cops) :
            /\ key(zobrist, other, zobrist.writes[i].robber, zobrist.writes[i].cop_turn)
                    = zobrist.writes[i].key
            /\ Contains(zobrist.table,
                        key(zobrist, other, zobrist.writes[i].robber, zobrist.writes[i].cop_turn),
                        zobrist.writes[i].depth)

\* an entry was written for cops that can be put in another order, two of them on one node
C11_Witness ==
    /\ zobrist.call.kind = "setitem"
    /\ \E i \in 1..Len(zobrist.writes) :
        /\ Cardinality(Reorderings(zobrist.writes[i].cops)) > 1
        /\ Cardinality(Range(zobrist.writes[i].cops)) < Len(zobrist.writes[i].cops)

\* the writes made so far with the hashed key k
WritesOf(k) == SelectSeq(zobrist.writes, LAMBDA w : w.key = k)

\* C12: for each key the table holds the depth, move and value of the earliest of the deepest
\* writes made with the key, and a write not deeper than the stored entry changes nothing.
C12_DeepestEarliestWriteKept ==
    /\ DOMAIN zobrist.table = {zobrist.writes[i].key : i \in 1..Len(zobrist.writes)}
    /\ \A k \in DOMAIN zobrist.table :
        LET ws == WritesOf(k)
            first == CHOOSE i \in 1..Len(ws) :
                        /\ \A j \in 1..Len(ws) : ws[j].depth <= ws[i].depth
                        /\ \A j \in 1..(i - 1) : ws[j].depth < ws[i].depth
        IN  zobrist.table[k] = [depth |-> ws[first].depth, move |-> ws[first].move,
                                evaluation |-> ws[first].evaluation]
    /\ (/\ zobrist.call.kind = "setitem"
        /\ zobrist.call.key \in DOMAIN zobrist.call.before
        /\ zobrist.call.depth <= zobrist.call.before[zobrist.call.key].depth)
            => zobrist.table = zobrist.call.before

\* a second write to a key, as deep as the first and with another value, was made
C12_Witness ==
    /\ zobrist.call.kind = "setitem"
    /\ Len(WritesOf(zobrist.call.key)) = 2
    /\ WritesOf(zobrist.call.key)[1].depth = WritesOf(zobrist.call.key)[2].depth
    /\ WritesOf(zobrist.call.key)[1].evaluation # WritesOf(zobrist.call.key)[2].evaluation

(***************************************************************************)
(* restore_possible_move_permutation called on its own, with any positions *)
(* of 1..RepairCops cops and any list of as many targets.                  *)
(***************************************************************************)
RepairCops == 2         \* the repaired moves are of 1..RepairCops cops

RepairFrame == UNCHANGED <<dvars, mvars, evars, zobrist, hierarchy, loop, pvars>>

RepairInit ==
    /\ DriverIdle
    /\ MinimaxIdle
    /\ EngineIdle
    /\ zobrist = NoZobrist
    /\ hierarchy = NoHierarchy
    /\ loop = NoLoop
    /\ MorePartsIdle
    /\ \E G \in EngineGraphs : repair_call = [called |-> FALSE, graph |-> G]

\* restore_possible_move_permutation(graph, cop_positions, move)
RepairCall ==
    /\ ~ repair_call.called
    /\ \E k \in 1..RepairCops :
        \E cp \in [1..k -> repair_call.graph.nodes], move \in [1..k -> repair_call.graph.nodes] :
            \E returned \in restore_possible_move_permutation(repair_call.graph, cp, move) :
                repair_call' = [called |-> TRUE, graph |-> repair_call.graph,
                                cop_positions |-> cp, move |-> move, returned |-> returned]
    /\ RepairFrame

RepairNext == RepairCall

RepairSpec == RepairInit /\ [][RepairNext]_vars

\* each cop's target is the cop's node or a neighbour of it
CoordinatewiseLegal(G, cp, move) ==
    /\ Len(move) = Len(cp)
    /\ \A i \in 1..Len(cp) : move[i] = cp[i] \/ move[i] \in Range(G.adj[cp[i]])

\* C13: when some order of the targets is legal cop by cop, the returned list holds the same
\* targets as often and is legal cop by cop; a move that is legal as it is comes back unchanged.
C13_RepairedMoveIsLegal ==
    repair_call.called =>
        /\ (\E other \in [1..Len(repair_call.move) -> Range(repair_call.move)] :
                /\ Counter(other) = Counter(repair_call.move)
                /\ CoordinatewiseLegal(repair_call.graph, repair_call.cop_positions, other))
            => /\ Counter(repair_call.returned) = Counter(repair_call.move)
               /\ CoordinatewiseLegal(repair_call.graph, repair_call.cop_positions,
                                      repair_call.returned)
        /\ CoordinatewiseLegal(repair_call.graph, repair_call.cop_positions, repair_call.move)
            => repair_call.returned = repair_call.move

\* a move that no cop order but another one can make was put in that order
C13_Witness ==
    /\ repair_call.called
    /\ ~ CoordinatewiseLegal(repair_call.graph, repair_call.cop_positions, repair_call.move)
    /\ repair_call.returned # repair_call.move
    /\ CoordinatewiseLegal(repair_call.graph, repair_call.cop_positions, repair_call.returned)

\* the placeholder restore_possible_move_permutation starts its list with
Placeholder == -1

\* no order of the targets is legal cop by cop
NoLegalOrder ==
    ~ \E other \in [1..Len(repair_call.move) -> Range(repair_call.move)] :
        /\ Counter(other) = Counter(repair_call.move)
        /\ CoordinatewiseLegal(repair_call.graph, repair_call.cop_positions, other)

\* C25 as stated: the repair never returns a list with a placeholder in it (it raises when no
\* order of the targets is legal).
C25_NeverAPlaceholder ==
    repair_call.called => Placeholder \notin Range(repair_call.returned)

\* C25, amended: the repair always returns a list.  The list holds a placeholder exactly if no
\* order of the targets is legal; then its other entries are targets their cops can step to,
\* no target is used more often than the move has it, and nothing is raised.
C25_PlaceholderIffNoLegalOrder ==
    repair_call.called =>
        /\ Len(repair_call.returned) = Len(repair_call.move)
        /\ Placeholder \in Range(repair_call.returned) <=> NoLegalOrder
        /\ \A i \in 1..Len(repair_call.returned) :
                repair_call.returned[i] # Placeholder =>
                    /\ repair_call.returned[i]
                            \in PossibleNextNodes(repair_call.graph, repair_call.cop_positions, i)
                    /\ Counter(repair_call.returned)[repair_call.returned[i]]
                            <= Counter(repair_call.move)[repair_call.returned[i]]

\* no order of the targets was legal, and the list came back with a placeholder and a target
C25_Witness ==
    /\ repair_call.called
    /\ NoLegalOrder
    /\ Placeholder \in Range(repair_call.returned)
    /\ \E i \in 1..Len(repair_call.returned) : repair_call.returned[i] # Placeholder

(***************************************************************************)
(* AbstractionHierarchy constructed on its own, on connected graphs of up  *)
(* to HierarchyNodes nodes.                                                *)
(***************************************************************************)
HierarchyNodes == 11    \* the hierarchies are built on graphs of 1..HierarchyNodes nodes

\* networkx.path_graph(n) with the edge (i, j) added to it, j > i + 1
chorded_path(n, i, j) ==
    [nodes |-> 0..(n - 1),
     order |-> [k \in 1..n |-> k - 1],
     adj |-> [v \in 0..(n - 1) |->
                SeqFilter(<<v - 1, v + 1>>, 0..(n - 1))
                    \o (IF v = i THEN <<j>> ELSE IF v = j THEN <<i>> ELSE <<>>)]]

\* connected graphs: paths, paths with a chord, stars, cycles, and the small trees
HierarchyGraphs ==
    {path_graph(n) : n \in 1..HierarchyNodes}
        \cup UNION {{chorded_path(n, p[1], p[2]) :
                        p \in {p \in (0..(n - 3)) \X (2..(n - 1)) : p[2] > p[1] + 1}}
                    : n \in 3..HierarchyNodes}
        \cup {star(n) : n \in 3..HierarchyNodes}
        \cup {cycle_graph(n) : n \in 3..HierarchyNodes}
        \cup MinimaxGraphs

HierarchyFrame == UNCHANGED <<dvars, mvars, evars, zobrist, repair_call, loop, pvars>>

HierarchyInit ==
    /\ DriverIdle
    /\ MinimaxIdle
    /\ EngineIdle
    /\ zobrist = NoZobrist
    /\ repair_call = NoRepairCall
    /\ loop = NoLoop
    /\ MorePartsIdle
    /\ \E G \in HierarchyGraphs : hierarchy = [constructed |-> FALSE, graph |-> G]

\* AbstractionHierarchy(graph)
HierarchyConstruct ==
    /\ ~ hierarchy.constructed
    /\ hierarchy' = [constructed |-> TRUE, graph |-> hierarchy.graph,
                     abstractions |-> AbstractionHierarchy(hierarchy.graph)]
    /\ HierarchyFrame

HierarchyNext == HierarchyConstruct

HierarchySpec == HierarchyInit /\ [][HierarchyNext]_vars

\* the levels of the constructed hierarchy
Levels == 1..Len(hierarchy.abstractions)

\* the graph the k-th level was pooled from
LevelInput(k) == IF k = 1 THEN hierarchy.graph ELSE hierarchy.abstractions[k - 1].graph

\* all nodes of G are connected to each other
Connected(G) == \A v \in G.nodes : Reach(G, {v}) = G.nodes

CeilHalf(n) == (n + 1) \div 2

\* the abstract nodes the mapping gives the nodes of G
AbstractIds(G, mapping) == {mapping[v] : v \in G.nodes}

\* C14: the pooling of a connected graph of n nodes gives every node an abstract id, and there
\* are exactly ceil(n / 2) different ids.
C14_PoolingHalves ==
    hierarchy.constructed =>
        \A k \in Levels :
            Connected(LevelInput(k)) =>
                /\ DOMAIN hierarchy.abstractions[k].vertex_mapping = LevelInput(k).nodes
                /\ Cardinality(AbstractIds(LevelInput(k), hierarchy.abstractions[k].vertex_mapping))
                        = CeilHalf(Cardinality(LevelInput(k).nodes))

\* a star of an odd number of nodes, five at least, was pooled: one pair of free nodes only
C14_Witness ==
    /\ hierarchy.constructed
    /\ Cardinality(hierarchy.graph.nodes) >= 5
    /\ Cardinality(hierarchy.graph.nodes) % 2 = 1
    /\ \E c \in hierarchy.graph.nodes :
            \A v \in hierarchy.graph.nodes \ {c} : Range(hierarchy.graph.adj[v]) = {c}
    /\ Cardinality(AbstractIds(hierarchy.graph, hierarchy.abstractions[1].vertex_mapping))
            = CeilHalf(Cardinality(hierarchy.graph.nodes))

\* C15: the abstract graph of a connected graph joins two different abstract nodes exactly when
\* an edge joins two nodes mapped to them, and it is connected.
C15_AbstractGraphConnected ==
    hierarchy.constructed =>
        \A k \in Levels :
            Connected(LevelInput(k)) =>
                /\ hierarchy.abstractions[k].graph.nodes
                        = AbstractIds(LevelInput(k), hierarchy.abstractions[k].vertex_mapping)
                /\ \A a, b \in hierarchy.abstractions[k].graph.nodes :
                        b \in Range(hierarchy.abstractions[k].graph.adj[a])
                            <=> /\ a # b
                                /\ \E u \in LevelInput(k).nodes :
                                    \E v \in Range(LevelInput(k).adj[u]) :
                                        /\ hierarchy.abstractions[k].vertex_mapping[u] = a
                                        /\ hierarchy.abstractions[k].vertex_mapping[v] = b
                /\ Connected(hierarchy.abstractions[k].graph)

\* a graph was pooled to an abstract graph of three nodes or more, not all joined to each other
C15_Witness ==
    /\ hierarchy.constructed
    /\ \E k \in Levels :
        /\ Cardinality(hierarchy.abstractions[k].graph.nodes) >= 3
        /\ \E a, b \in hierarchy.abstractions[k].graph.nodes :
                a # b /\ b \notin Range(hierarchy.abstractions[k].graph.adj[a])
        /\ Connected(hierarchy.abstractions[k].graph)

RECURSIVE Composed(_,_)
\* the vertex mappings of the levels 1 .. k applied one after the other to the node
Composed(k, node) ==
    IF k = 0 THEN node ELSE hierarchy.abstractions[k].vertex_mapping[Composed(k - 1, node)]

\* C16: a later level has fewer nodes than an earlier one, and the literal mapping of a level
\* is the composition of the vertex mappings up to it, defined on all nodes of the graph.
C16_HierarchyMonotone ==
    hierarchy.constructed =>
        /\ \A i, j \in Levels :
                i < j => /\ hierarchy.abstractions[j].n_nodes < hierarchy.abstractions[i].n_nodes
                         /\ Cardinality(hierarchy.abstractions[j].graph.nodes)
                                < Cardinality(hierarchy.abstractions[i].graph.nodes)
        /\ \A k \in Levels :
                /\ DOMAIN hierarchy.abstractions[k].literal_vertex_mapping = hierarchy.graph.nodes
                /\ \A node \in hierarchy.graph.nodes :
                        hierarchy.abstractions[k].literal_vertex_mapping[node] = Composed(k, node)

\* a hierarchy of two levels or more, the second one mapping two nodes that the first level
\* keeps apart to one abstract node
C16_Witness ==
    /\ hierarchy.constructed
    /\ Len(hierarchy.abstractions) >= 2
    /\ \E u, v \in hierarchy.graph.nodes :
            /\ hierarchy.abstractions[1].literal_vertex_mapping[u]
                    # hierarchy.abstractions[1].literal_vertex_mapping[v]
            /\ hierarchy.abstractions[2].literal_vertex_mapping[u]
                    = hierarchy.abstractions[2].literal_vertex_mapping[v]

\* each level after the first is pooled from the level before it, and the list ends with the
\* first level of at most ABSTRACTION_SIZE_THRESHOLD nodes
FurtherLevelsAndStop ==
    /\ \A k \in Levels \ {1} :
            /\ hierarchy.abstractions[k].graph.nodes
                    = AbstractIds(hierarchy.abstractions[k - 1].graph,
                                  hierarchy.abstractions[k].vertex_mapping)
            /\ Cardinality(hierarchy.abstractions[k].graph.nodes)
                    = CeilHalf(Cardinality(hierarchy.abstractions[k - 1].graph.nodes))
            /\ \A a, b \in hierarchy.abstractions[k].graph.nodes :
                    b \in Range(hierarchy.abstractions[k].graph.adj[a])
                        <=> /\ a # b
                            /\ \E u \in hierarchy.abstractions[k - 1].graph.nodes :
                                \E v \in Range(hierarchy.abstractions[k - 1].graph.adj[u]) :
                                    /\ hierarchy.abstractions[k].vertex_mapping[u] = a
                                    /\ hierarchy.abstractions[k].vertex_mapping[v] = b
    /\ \A k \in Levels :
            Cardinality(hierarchy.abstractions[k].graph.nodes) <= ABSTRACTION_SIZE_THRESHOLD
                <=> k = Len(hierarchy.abstractions)

\* C17 as stated: the first level is the graph itself under the identity mapping, each further
\* level is pooled from the level before it, and the list ends with the first level of at most
\* ABSTRACTION_SIZE_THRESHOLD nodes.
C17_FirstLevelIsGraph ==
    hierarchy.constructed =>
        /\ hierarchy.abstractions[1].graph.nodes = hierarchy.graph.nodes
        /\ \A node \in hierarchy.graph.nodes :
                hierarchy.abstractions[1].literal_vertex_mapping[node] = node
        /\ FurtherLevelsAndStop

\* C17, amended: the first level is already pooled from the graph (ceil(n / 2) nodes, its
\* literal mapping the pooling of the graph), each further level is pooled from the level before
\* it, and the list ends with the first level of at most ABSTRACTION_SIZE_THRESHOLD nodes.
C17_FirstLevelIsPooled ==
    hierarchy.constructed =>
        /\ hierarchy.abstractions[1].graph.nodes
                = AbstractIds(hierarchy.graph, hierarchy.abstractions[1].vertex_mapping)
        /\ Cardinality(hierarchy.abstractions[1].graph.nodes)
                = CeilHalf(Cardinality(hierarchy.graph.nodes))
        /\ hierarchy.abstractions[1].literal_vertex_mapping
                = hierarchy.abstractions[1].vertex_mapping
        /\ \A a, b \in hierarchy.abstractions[1].graph.nodes :
                b \in Range(hierarchy.abstractions[1].graph.adj[a])
                    <=> /\ a # b
                        /\ \E u \in hierarchy.graph.nodes :
                            \E v \in Range(hierarchy.graph.adj[u]) :
                                /\ hierarchy.abstractions[1].vertex_mapping[u] = a
                                /\ hierarchy.abstractions[1].vertex_mapping[v] = b
        /\ FurtherLevelsAndStop

\* a graph of at most ABSTRACTION_SIZE_THRESHOLD nodes, more than one, got a hierarchy of one
\* level with fewer nodes than the graph
C17_Witness ==
    /\ hierarchy.constructed
    /\ Cardinality(hierarchy.graph.nodes) \in 2..ABSTRACTION_SIZE_THRESHOLD
    /\ Len(hierarchy.abstractions) = 1
    /\ Cardinality(hierarchy.abstractions[1].graph.nodes) < Cardinality(hierarchy.graph.nodes)

(***************************************************************************)
(* The frame of Cops.step, checked on the steps of EngineSpec.             *)
(***************************************************************************)
\* the number of entries the components before the c-th have in the chained list
Offset(c) == SumOver(1..(c - 1), cops_player.n_cops)

\* the places of the c-th component's cops in the chained list
Places(c) == (Offset(c) + 1)..(Offset(c) + cops_player.n_cops[c])

\* C18: a step of the cops changes no entry of a component other than the robber's, and no
\* entry at all if the robber's component has no cops or the robber stands on one of its cops.
C18_OnlyRobberComponentMoves ==
    (engine_call.kind = "Cops.step" /\ ~ engine_call.raised) =>
        /\ Len(engine_call.returned) = Len(engine_call.cops_before)
        /\ \A c \in 1..Len(cops_player.components) :
                c # engine_call.component =>
                    \A place \in Places(c) :
                        engine_call.returned[place] = engine_call.cops_before[place]
        /\ (\/ cops_player.n_cops[engine_call.component] = 0
            \/ \E place \in Places(engine_call.component) :
                    engine_call.cops_before[place] = engine_call.robber_before)
                => engine_call.returned = engine_call.cops_before

\* the cops of the robber's component stepped while another component has cops too
C18_Witness ==
    /\ engine_call.kind = "Cops.step"
    /\ ~ engine_call.raised
    /\ engine_call.returned # engine_call.cops_before
    /\ \E c \in 1..Len(cops_player.components) :
            c # engine_call.component /\ cops_player.n_cops[c] > 0

(***************************************************************************)
(* The probabilities of the strategy, checked on the steps of EngineSpec.  *)
(***************************************************************************)
\* C23: a step of the strategy that runs the abstract minimax halves the probability of its
\* position key (2^-k becomes 2^-(k+1), starting from 1) and changes no other key; a step that
\* does not run it returns the pursuit move and leaves every probability as it was; the
\* minimax is run whenever the key is new and some abstraction is undecided, so a skip needs a
\* run before it.
C23_HalvedEachRun ==
    [][(/\ engine_turn = "Cops.step"
        /\ engine_call'.kind = "Cops.step"
        /\ engine_call'.way # "no_step") =>
            LET c == engine_call'.component
                strategy == cops_player.strategies[c]
                before == strategy.minimax_probability
                after == cops_player'.strategies[c].minimax_probability
                cp == cops_player.cop_positions[c]
                rp == robber_player.robber_position
                position_key == <<rp>> \o cp
                runs == engine_call'.way \notin {"decided", "skipped"}
            IN  /\ DOMAIN before \subseteq DOMAIN after
                /\ \A other \in DOMAIN after \ {position_key} :
                        other \in DOMAIN before /\ after[other] = before[other]
                /\ Probability(after, position_key, CERTAIN) >= CERTAIN
                /\ Probability(after, position_key, CERTAIN)
                        = Probability(before, position_key, CERTAIN) + (IF runs THEN 1 ELSE 0)
                /\ ~ runs =>
                        /\ after = before
                        /\ ~ engine_call'.raised =>
                                cops_player'.cop_positions[c]
                                    = disjoint_search_steps(strategy.graph, cp, rp)
                /\ (/\ position_key \notin DOMAIN before
                    /\ highest_undecided_abstraction(strategy.abstractions, cp, rp) # NoLevel)
                        => runs
                /\ engine_call'.way = "skipped" => position_key \in DOMAIN before
      ]_vars

\* the minimax was skipped at a key it had been run for once before
C23_Witness ==
    /\ engine_call.kind = "Cops.step"
    /\ engine_call.way = "skipped"
    /\ \E position_key \in DOMAIN cops_player.strategies[engine_call.component].minimax_probability :
            cops_player.strategies[engine_call.component].minimax_probability[position_key] = 1

(***************************************************************************)
(* Cops.__init__ on its own: the cops are distributed over the islands of  *)
(* graphs of up to MaxIslands islands, paths and cycles of up to           *)
(* IslandNodes nodes, for 1..DistributionCops cops.                        *)
(***************************************************************************)
MaxIslands == 3         \* the graphs have 1..MaxIslands islands
IslandNodes == 3        \* an island has 1..IslandNodes nodes
DistributionCops == 4   \* 1..DistributionCops cops are distributed

\* networkx.disjoint_union(G, H): the nodes of H are numbered after those of G
disjoint_union(G, H) ==
    LET n == Len(G.order)
    IN  [nodes |-> 0..(n + Len(H.order) - 1),
         order |-> [i \in 1..(n + Len(H.order)) |-> i - 1],
         adj |-> [v \in 0..(n + Len(H.order) - 1) |->
                    IF v < n THEN G.adj[G.order[v + 1]]
                    ELSE [k \in 1..Len(H.adj[H.order[v - n + 1]]) |->
                            NodeIndex(H, H.adj[H.order[v - n + 1]][k]) + n]]]

\* the islands: paths and cycles
Islands ==
    {path_graph(n) : n \in 1..IslandNodes} \cup {cycle_graph(n) : n \in 3..IslandNodes}

RECURSIVE IslandGraphs(_)
\* the graphs of k islands
IslandGraphs(k) ==
    IF k = 1 THEN Islands
    ELSE {disjoint_union(G, H) : G \in IslandGraphs(k - 1), H \in Islands}

DistributionInit ==
    /\ DriverIdle
    /\ MinimaxIdle
    /\ PartsIdle
    /\ \E k \in 1..MaxIslands : \E G \in IslandGraphs(k) : cops_player = [graph |-> G]
    /\ robber_player = [graph |-> NoGraph]
    /\ engine_call = NoEngineCall
    /\ engine_turn = "idle"
    /\ engine_steps = 0

\* Cops(graph, cops_count)
CopsInit ==
    /\ engine_turn = "idle"
    /\ \E components \in Listings(connected_components(cops_player.graph)) :
        \E count \in 1..DistributionCops :
            cops_player' = NewCops(cops_player.graph, components, count)
    /\ engine_call' = [NoEngineCall EXCEPT !.kind = "Cops.__init__"]
    /\ engine_turn' = "constructed"
    /\ UNCHANGED <<robber_player, engine_steps>>
    /\ UNCHANGED <<dvars, mvars, ovars, pvars>>

DistributionNext == CopsInit

DistributionSpec == DistributionInit /\ [][DistributionNext]_vars

\* the components as the places of the list self.components
ComponentPlaces == 1..Len(cops_player.components)

\* the cops left when every component has got one: R
RemainingCops == cops_player.cops_count - Len(cops_player.components)

\* floor(R * p_c)
FloorShare(c) ==
    (RemainingCops * cops_player.cop_distribution.weight[c]) \div cops_player.cop_distribution.total

\* the fractional remainder of R * p_c, in parts of the total
FractionalRemainder(c) ==
    (RemainingCops * cops_player.cop_distribution.weight[c]) % cops_player.cop_distribution.total

\* the counts sum to cops_count; fewer cops than components: the cops_count smallest
\* components have one cop and the others none
SumAndSmallestFirst ==
    /\ SumOver(ComponentPlaces, cops_player.n_cops) = cops_player.cops_count
    /\ cops_player.cops_count < Len(cops_player.components) =>
            /\ \A c \in ComponentPlaces : cops_player.n_cops[c] \in {0, 1}
            /\ \A c, o \in ComponentPlaces :
                    (cops_player.n_cops[c] = 1 /\ cops_player.n_cops[o] = 0) =>
                        Cardinality(cops_player.components[c])
                            <= Cardinality(cops_player.components[o])

\* every component has one cop and floor(R * p_c) more, or one more than that
OneAndFloor ==
    \A c \in ComponentPlaces : cops_player.n_cops[c] - (1 + FloorShare(c)) \in {0, 1}

\* C19 as stated: the counts sum to cops_count; fewer cops than components go to the smallest
\* components; else every component gets one and floor(R * p_c), and the cops still left go
\* to the components with the biggest fractional remainders of R * p_c.
C19_BiggestRemainderFill ==
    engine_call.kind = "Cops.__init__" =>
        /\ SumAndSmallestFirst
        /\ cops_player.cops_count >= Len(cops_player.components) =>
                /\ OneAndFloor
                /\ \A c, o \in ComponentPlaces :
                        (/\ cops_player.n_cops[c] = 1 + FloorShare(c) + 1
                         /\ cops_player.n_cops[o] = 1 + FloorShare(o))
                            => FractionalRemainder(c) >= FractionalRemainder(o)

\* C19, amended: the cops still left after the floors go to the components with the biggest
\* proportions p_c, whatever the remainders are.
C19_BiggestProportionFill ==
    engine_call.kind = "Cops.__init__" =>
        /\ SumAndSmallestFirst
        /\ cops_player.cops_count >= Len(cops_player.components) =>
                /\ OneAndFloor
                /\ \A c, o \in ComponentPlaces :
                        (/\ cops_player.n_cops[c] = 1 + FloorShare(c) + 1
                         /\ cops_player.n_cops[o] = 1 + FloorShare(o))
                            => cops_player.cop_distribution.weight[c]
                                    >= cops_player.cop_distribution.weight[o]

\* a cop left after the floors went to a component of a bigger proportion and a smaller
\* remainder than another one's
C19_Witness ==
    /\ engine_call.kind = "Cops.__init__"
    /\ cops_player.cops_count >= Len(cops_player.components)
    /\ \E c, o \in ComponentPlaces :
            /\ cops_player.n_cops[c] = 1 + FloorShare(c) + 1
            /\ cops_player.n_cops[o] = 1 + FloorShare(o)
            /\ cops_player.cop_distribution.weight[c] > cops_player.cop_distribution.weight[o]
            /\ FractionalRemainder(c) < FractionalRemainder(o)

(***************************************************************************)
(* util/timeout.py: a function wrapped by timeout_loop and called again    *)
(* and again.  The clock counts ticks; the tolerance is kept in tenths     *)
(* (1.2 is 12), so that finish_time - start <= tolerance * duration is     *)
(* 10 * (finish_time - start) <= tolerance * duration.                     *)
(***************************************************************************)
MaxClock == 6           \* the clock runs from 0 to MaxClock
MaxIterationTicks == 3  \* one call of the wrapped function takes 0..MaxIterationTicks ticks
MaxLoopCalls == 4       \* the loop function is called at most MaxLoopCalls times

\* the tolerances the loops are wrapped with: the default 1.2, and 2 in minimax/engine.py
Tolerances == {12, 20}

LoopFrame == UNCHANGED <<dvars, mvars, evars, zobrist, repair_call, hierarchy, pvars>>

\* loop_function refuses with a <, so that it still runs when the time left is just the tolerance
Refuses_Strict(finish_time, tolerance, duration, start) ==
    10 * (finish_time - start) < tolerance * duration

\* the test of loop_function: finish_time - start <= tolerance * duration
Refuses(finish_time, tolerance, duration, start) ==
    10 * (finish_time - start) <= tolerance * duration

\* max(a, b)
Max(a, b) == IF a >= b THEN a ELSE b

\* timeout_loop(finish_time, tolerance)(func): duration = 0
LoopInit ==
    /\ DriverIdle
    /\ MinimaxIdle
    /\ EngineIdle
    /\ zobrist = NoZobrist
    /\ repair_call = NoRepairCall
    /\ hierarchy = NoHierarchy
    /\ MorePartsIdle
    /\ \E finish_time \in 0..MaxClock, tolerance \in Tolerances :
        loop = [wrapped |-> TRUE, finish_time |-> finish_time, tolerance |-> tolerance,
                duration |-> 0, now |-> 0,
                iterations |-> <<>>, calls |-> 0, refused |-> FALSE,
                call |-> [kind |-> "none", start |-> 0, returned |-> FALSE,
                          refused_before |-> FALSE]]

\* time passes between two calls
LoopTick ==
    /\ loop.now < MaxClock
    /\ loop' = [loop EXCEPT !.now = @ + 1, !.call.kind = "none"]
    /\ LoopFrame

\* loop_function(): False at once if the time left is too short, else func() runs for some
\* ticks (time.time() - start), the longest duration is kept and True is returned
LoopFunction ==
    /\ loop.calls < MaxLoopCalls
    /\ LET start == loop.now
       IN  IF Refuses(loop.finish_time, loop.tolerance, loop.duration, start)
           THEN loop' = [loop EXCEPT !.calls = @ + 1, !.refused = TRUE,
                                     !.call = [kind |-> "loop_function", start |-> start,
                                               returned |-> FALSE,
                                               refused_before |-> loop.refused]]
           ELSE \E ticks \in 0..MaxIterationTicks :
                    /\ start + ticks <= MaxClock
                    /\ loop' = [loop EXCEPT !.calls = @ + 1,
                                            !.now = start + ticks,
                                            !.duration = Max(ticks, loop.duration),
                                            !.iterations = Append(@, ticks),
                                            !.call = [kind |-> "loop_function", start |-> start,
                                                      returned |-> TRUE,
                                                      refused_before |-> loop.refused]]
    /\ LoopFrame

LoopNext == LoopTick \/ LoopFunction

LoopSpec == LoopInit /\ [][LoopNext]_vars

RECURSIVE Longest(_)
\* the longest of the iterations, 0 if there is none
Longest(iterations) ==
    IF iterations = <<>> THEN 0
    ELSE LET rest == Longest(Tail(iterations))
         IN  IF Head(iterations) >= rest THEN Head(iterations) ELSE rest

\* the iterations executed before the last call
IterationsBefore ==
    IF loop.call.returned THEN SubSeq(loop.iterations, 1, Len(loop.iterations) - 1)
    ELSE loop.iterations

\* C20: a call runs the body exactly if deadline - now > tolerance * (the longest iteration
\* so far, 0 before the first); the recorded duration is the longest iteration; the body never
\* starts at or after the deadline; and after a refused call every call is refused.
C20_TimeoutLoop ==
    /\ loop.wrapped => loop.duration = Longest(loop.iterations)
    /\ (loop.wrapped /\ loop.call.kind = "loop_function") =>
            /\ loop.call.returned
                <=> 10 * (loop.finish_time - loop.call.start)
                        > loop.tolerance * Longest(IterationsBefore)
            /\ loop.call.returned => loop.call.start < loop.finish_time
            /\ loop.call.refused_before => ~ loop.call.returned

\* a call was refused with the time left just the tolerance times the longest iteration, a
\* shorter iteration having run after the longest one
C20_Witness ==
    /\ loop.wrapped
    /\ loop.call.kind = "loop_function"
    /\ ~ loop.call.returned
    /\ Len(loop.iterations) >= 2
    /\ loop.iterations[Len(loop.iterations)] < loop.duration
    /\ loop.call.start < loop.finish_time
    /\ 10 * (loop.finish_time - loop.call.start) = loop.tolerance * loop.duration

(***************************************************************************)
(* abstraction/store.py: the two stores of one abstraction level,          *)
(* populated on paths of up to StoreNodes nodes.  The clock counts ticks   *)
(* as in LoopSpec; every per-node pass goes through timeout_loop with the  *)
(* default tolerance 1.2.                                                  *)
(***************************************************************************)
StoreNodes == 3         \* the stores are populated for graphs of 1..StoreNodes nodes

\* the default tolerance of timeout_loop, in tenths
DefaultTolerance == 12

RECURSIVE GuardedPasses(_,_,_,_)
\* for node in ...: if not wrapped(node): return False -- for k nodes still to come, with the
\* longest duration so far: how many passes ran, whether none was refused, and the time at the end
GuardedPasses(k, now, duration, finish_time) ==
    IF k = 0 THEN {[executed |-> 0, complete |-> TRUE, now |-> now]}
    ELSE IF Refuses(finish_time, DefaultTolerance, duration, now)
    THEN {[executed |-> 0, complete |-> FALSE, now |-> now]}
    ELSE UNION {{[rest EXCEPT !.executed = @ + 1] :
                    rest \in GuardedPasses(k - 1, now + ticks, Max(ticks, duration), finish_time)}
                : ticks \in 0..MaxIterationTicks}

\* a population that says it is complete whatever the guard said
ShortestPathLengthPopulate_AlwaysTrue(G, now, finish_time) ==
    {[passes EXCEPT !.complete = TRUE] : passes \in GuardedPasses(Len(G.order), now, 0, finish_time)}

\* ShortestPathLengthStore._populate
ShortestPathLengthPopulate(G, now, finish_time) ==
    GuardedPasses(Len(G.order), now, 0, finish_time)

\* UndominatedNeighborhoodEdgeRankStore._populate: the neighbourhoods of all nodes, then the
\* ranks of all nodes, each with a timeout_loop of its own
UndominatedNeighborhoodPopulate(G, now, finish_time) ==
    UNION {IF neighborhoods.complete
           THEN {[ranks EXCEPT !.executed = @ + neighborhoods.executed] :
                    ranks \in GuardedPasses(Len(G.order), neighborhoods.now, 0, finish_time)}
           ELSE {neighborhoods}
           : neighborhoods \in GuardedPasses(Len(G.order), now, 0, finish_time)}

\* Store.__init__
NewStore == [is_populated |-> FALSE, called |-> FALSE, executed |-> 0, ended |-> 0]

StoreFrame == UNCHANGED <<dvars, mvars, evars, ovars, effective_call, refinement_call, descent, step_thread>>

StoreInit ==
    /\ DriverIdle
    /\ MinimaxIdle
    /\ EngineIdle
    /\ zobrist = NoZobrist
    /\ repair_call = NoRepairCall
    /\ hierarchy = NoHierarchy
    /\ loop = NoLoop
    /\ effective_call = NoEffectiveCall
    /\ refinement_call = NoRefinementCall
    /\ descent = NoDescent
    /\ step_thread = NoStepThread
    /\ \E n \in 1..StoreNodes, finish_time \in 0..MaxClock :
        store = [constructed |-> TRUE, graph |-> path_graph(n), finish_time |-> finish_time,
                 now |-> 0,
                 shortest_path_lengths |-> NewStore,
                 undominated_neighborhood_ranks |-> NewStore]

\* time passes between two calls
StoreTick ==
    /\ store.now < MaxClock
    /\ store' = [store EXCEPT !.now = @ + 1]
    /\ StoreFrame

\* GraphAbstraction.populate_shortest_path_lengths(finish_time)
PopulateShortestPathLengths ==
    /\ store.now <= MaxClock
    /\ \E passes \in ShortestPathLengthPopulate(store.graph, store.now, store.finish_time) :
        store' = [store EXCEPT !.now = passes.now,
                               !.shortest_path_lengths =
                                    [is_populated |-> passes.complete, called |-> TRUE,
                                     executed |-> passes.executed, ended |-> passes.now]]
    /\ StoreFrame

\* GraphAbstraction.populate_undominated_neighborhood_ranks(finish_time)
PopulateUndominatedNeighborhoodRanks ==
    /\ store.now <= MaxClock
    /\ \E passes \in UndominatedNeighborhoodPopulate(store.graph, store.now, store.finish_time) :
        store' = [store EXCEPT !.now = passes.now,
                               !.undominated_neighborhood_ranks =
                                    [is_populated |-> passes.complete, called |-> TRUE,
                                     executed |-> passes.executed, ended |-> passes.now]]
    /\ StoreFrame

StoreNext ==
    \/ StoreTick
    \/ PopulateShortestPathLengths
    \/ PopulateUndominatedNeighborhoodRanks

StoreSpec == StoreInit /\ [][StoreNext]_vars

\* is_populated of the store says that all its passes ran: one per node, two for the ranks
AllPassesRan ==
    /\ store.shortest_path_lengths.called =>
            (store.shortest_path_lengths.is_populated
                <=> store.shortest_path_lengths.executed = Len(store.graph.order))
    /\ store.undominated_neighborhood_ranks.called =>
            (store.undominated_neighborhood_ranks.is_populated
                <=> store.undominated_neighborhood_ranks.executed = 2 * Len(store.graph.order))

\* C21 as stated: is_populated is true only if every pass ran and the population ended before
\* the deadline, and it is false if a pass was refused.
C21_PopulatedBeforeDeadline ==
    store.constructed =>
        /\ AllPassesRan
        /\ store.shortest_path_lengths.is_populated
                => store.shortest_path_lengths.ended <= store.finish_time
        /\ store.undominated_neighborhood_ranks.is_populated
                => store.undominated_neighborhood_ranks.ended <= store.finish_time

\* C21, amended: is_populated is true exactly if no pass was refused, that is if every pass
\* ran; the last pass started before the deadline, but the population may end after it.
C21_PopulatedIffAllPassesRan ==
    store.constructed =>
        /\ AllPassesRan
        /\ store.shortest_path_lengths.is_populated
                => store.shortest_path_lengths.ended < store.finish_time + MaxIterationTicks
        /\ store.undominated_neighborhood_ranks.is_populated
                => store.undominated_neighborhood_ranks.ended
                        < store.finish_time + MaxIterationTicks

\* a store is populated though its population ended after the deadline
C21_Witness ==
    /\ store.constructed
    /\ store.shortest_path_lengths.is_populated
    /\ store.shortest_path_lengths.ended > store.finish_time
    /\ store.undominated_neighborhood_ranks.called
    /\ ~ store.undominated_neighborhood_ranks.is_populated

(***************************************************************************)
(* effective_game_graph run on its own, for any positions of               *)
(* 1..EffectiveCops cops and of the robber and any radius up to MaxRadius. *)
(***************************************************************************)
EffectiveCops == 2      \* the generator is run for 1..EffectiveCops cops
MaxRadius == 3          \* max_radius is in 0..MaxRadius

EffectiveFrame == UNCHANGED <<dvars, mvars, evars, ovars, store, refinement_call, descent, step_thread>>

EffectiveInit ==
    /\ DriverIdle
    /\ MinimaxIdle
    /\ EngineIdle
    /\ zobrist = NoZobrist
    /\ repair_call = NoRepairCall
    /\ hierarchy = NoHierarchy
    /\ loop = NoLoop
    /\ store = NoStore
    /\ refinement_call = NoRefinementCall
    /\ descent = NoDescent
    /\ step_thread = NoStepThread
    /\ \E G \in EngineGraphs : effective_call = [called |-> FALSE, graph |-> G]

\* list(effective_game_graph(graph, cop_positions, robber_position, max_radius)), every pair
\* taken as it is when it is yielded
EffectiveGameGraph ==
    /\ ~ effective_call.called
    /\ \E k \in 1..EffectiveCops :
        \E cp \in [1..k -> effective_call.graph.nodes], rp \in effective_call.graph.nodes,
           max_radius \in 0..MaxRadius :
            effective_call' = [called |-> TRUE, graph |-> effective_call.graph,
                               cop_positions |-> cp, robber_position |-> rp,
                               max_radius |-> max_radius,
                               yielded |-> effective_game_graph(effective_call.graph, cp, rp,
                                                                max_radius)]
    /\ EffectiveFrame

EffectiveNext == EffectiveGameGraph

EffectiveSpec == EffectiveInit /\ [][EffectiveNext]_vars

RECURSIVE Ball(_,_,_)
\* the nodes at most `radius` steps away from the node
Ball(G, node, radius) ==
    IF radius = 0 THEN {node}
    ELSE LET inner == Ball(G, node, radius - 1)
         IN  inner \cup {w \in G.nodes : \E v \in inner : w \in Range(G.adj[v])}

\* the radii at which a pair is to be yielded: the contour of that radius is not empty and
\* the next one holds the position of a cop
YieldRadii ==
    {radius \in 0..effective_call.max_radius :
        \E i \in 1..Len(effective_call.cop_positions) :
            /\ effective_call.cop_positions[i]
                    \in Ball(effective_call.graph, effective_call.robber_position, radius + 1)
            /\ effective_call.cop_positions[i]
                    \notin Ball(effective_call.graph, effective_call.robber_position, radius)}

\* the pair to be yielded at the radius: the sub graph of the visited nodes and the next
\* contour, and the indices (0-based) of the cops that stand outside it
YieldAt(radius) ==
    [nodes |-> Ball(effective_call.graph, effective_call.robber_position, radius + 1),
     hidden |-> {i - 1 : i \in {i \in 1..Len(effective_call.cop_positions) :
                    effective_call.cop_positions[i]
                        \notin Ball(effective_call.graph, effective_call.robber_position,
                                    radius + 1)}}]

\* C22: the generator yields a pair exactly at the radii at which the next contour reaches a
\* cop that was outside so far; its sub graph is the visited nodes with the next contour, and
\* hidden_cops is exactly the cops whose position is not in that sub graph.
C22_YieldsAtNewCops ==
    effective_call.called =>
        LET radii == SortedSeq(YieldRadii)
        IN  effective_call.yielded = [k \in 1..Len(radii) |-> YieldAt(radii[k])]

(***************************************************************************)
(* minimax_refinement taken line by line, so that the driver can kill the  *)
(* thread of the step between two of its lines: DescentSpec.  The strategy *)
(* is built for a connected graph; the calls are the ones step makes, with *)
(* the highest undecided abstraction.  The clock is the environment's:     *)
(* whether finish_time has passed when a round ends is open.               *)
(***************************************************************************)
MaxDescents == 2

NoKey == <<>>

DescentFrame == UNCHANGED <<dvars, mvars, evars, ovars, store, effective_call, refinement_call,
                            step_thread>>

\* minimax_timeout_probability[timeout_key] = probability
TimeoutProbabilitySet(strategy, timeout_key, probability) ==
    [strategy EXCEPT !.minimax_timeout_probability = (timeout_key :> probability) @@ @]

\* a round that resets the probability whatever the clock says
AtRoundEnd_AlwaysReset(strategy, timeout_key, late) ==
    TimeoutProbabilitySet(strategy, timeout_key, NEVER)

\* lines 255-258: if time.time() <= finish_time: minimax_timeout_probability[timeout_key] = 0
AtRoundEnd(strategy, timeout_key, late) ==
    IF late THEN strategy ELSE TimeoutProbabilitySet(strategy, timeout_key, NEVER)

\* the strategy is constructed
DescentInit ==
    /\ DriverIdle
    /\ MinimaxIdle
    /\ EngineIdle
    /\ zobrist = NoZobrist
    /\ repair_call = NoRepairCall
    /\ hierarchy = NoHierarchy
    /\ loop = NoLoop
    /\ store = NoStore
    /\ effective_call = NoEffectiveCall
    /\ refinement_call = NoRefinementCall
    /\ step_thread = NoStepThread
    /\ \E G \in {H \in EngineGraphs : Reach(H, {0}) = H.nodes} :
        descent = [called |-> TRUE, strategy |-> NewStrategy(G), pc |-> "idle", calls |-> 0,
                   cop_positions |-> <<>>, robber_position |-> None,
                   abstraction |-> NoLevel, lower_abstraction |-> NoLevel,
                   target_positions |-> <<>>, timeout_key |-> NoKey, late |-> FALSE,
                   returned |-> <<>>, way |-> ""]

\* what the call hands back: the thread is done
DescentReturns(d, move, way) ==
    [d EXCEPT !.pc = "idle", !.returned = move, !.way = way]

\* line 264: return self.abstract_refinement_search(abstraction, cop_positions, target_positions)
DescentRefines(d, way) ==
    DescentReturns(d, abstract_refinement_search(d.strategy, d.abstraction, d.cop_positions,
                                                 d.target_positions), way)

\* step calls minimax_refinement (lines 155-158), which searches at the initial level
\* (lines 205-214)
MinimaxRefinementCall ==
    /\ descent.pc = "idle"
    /\ descent.calls < MaxDescents
    /\ \E cp \in CopPlacements(descent.strategy.graph), rp \in descent.strategy.graph.nodes,
          time \in Deadlines :
        LET abstraction == highest_undecided_abstraction(descent.strategy.abstractions, cp, rp)
            called == [descent EXCEPT !.calls = @ + 1, !.cop_positions = cp,
                                      !.robber_position = rp, !.abstraction = abstraction,
                                      !.lower_abstraction = abstraction,
                                      !.timeout_key = NoKey, !.late = FALSE,
                                      !.returned = <<>>, !.way = ""]
        IN  /\ rp \notin Range(cp)
            /\ abstraction # NoLevel
            /\ LET r == abstract_minimax(descent.strategy, abstraction, cp, rp, time)
                   searched == [called EXCEPT !.strategy.tables[abstraction] = r.tt]
               IN  IF ~ r.is_winning
                   THEN descent' = DescentReturns(
                                       searched,
                                       disjoint_search_steps(descent.strategy.graph, cp, rp),
                                       "not_winning")
                   ELSE \E target_positions \in r.moves :
                            descent' = [searched EXCEPT !.pc = "while",
                                                        !.target_positions = target_positions]
    /\ DescentFrame

\* lines 217-229: the head of a round of the loop, up to the line that sets the probability
DescentRound ==
    /\ descent.pc = "while"
    /\ LET lower == highest_abstraction_lower_than(descent.strategy.abstractions,
                                                   descent.lower_abstraction)
           timeout_key == <<lower, descent.cop_positions, descent.robber_position>>
           probability == Probability(descent.strategy.minimax_timeout_probability,
                                      timeout_key, NEVER)
       IN  \E stops \in Random(probability) :
            IF stops
            THEN descent' = DescentRefines(
                                [descent EXCEPT
                                    !.lower_abstraction = lower,
                                    !.strategy = TimeoutProbabilitySet(@, timeout_key,
                                                                       Halved(probability))],
                                "stopped")
            ELSE descent' = [descent EXCEPT
                                !.pc = "minimax",
                                !.lower_abstraction = lower,
                                !.timeout_key = timeout_key,
                                !.strategy = TimeoutProbabilitySet(@, timeout_key, CERTAIN)]
    /\ DescentFrame

\* lines 231-258: the search of the round and what follows it
DescentMinimax ==
    /\ descent.pc = "minimax"
    /\ \E time \in Deadlines, late \in BOOLEAN :
        LET lower == descent.lower_abstraction
            cp == descent.cop_positions
            rp == descent.robber_position
            ended == [descent EXCEPT !.late = late]
        IN  IF lower = NoLevel
            THEN LET r == best_cop_move(descent.strategy.graph, descent.strategy.literal_table,
                                        cp, rp, MINIMAX_DEPTH, time)
                 IN  IF r.is_winning
                     THEN \E move \in r.moves :
                            descent' = DescentReturns(
                                           [ended EXCEPT
                                                !.strategy =
                                                    [TimeoutProbabilitySet(@, descent.timeout_key,
                                                                           NEVER)
                                                        EXCEPT !.literal_table = r.tt]],
                                           move, "literal_minimax")
                     ELSE descent' = DescentRefines(
                                         [ended EXCEPT
                                            !.strategy =
                                                AtRoundEnd([@ EXCEPT !.literal_table = r.tt],
                                                           descent.timeout_key, late)],
                                         "refinement")
            ELSE LET r == abstract_minimax(descent.strategy, lower, cp, rp, time)
                     searched == [ended EXCEPT
                                    !.strategy = AtRoundEnd([@ EXCEPT !.tables[lower] = r.tt],
                                                            descent.timeout_key, late)]
                 IN  IF r.is_winning
                     THEN \E new_target_positions \in r.moves :
                            descent' = [searched EXCEPT !.pc = "while",
                                                        !.abstraction = lower,
                                                        !.target_positions = new_target_positions]
                     ELSE descent' = DescentRefines(searched, "refinement")
    /\ DescentFrame

\* KillableThread.terminate: the thread of the step ends where it is; a search it was in has
\* written to its table what a search cut at some point writes
DescentKilled ==
    /\ descent.pc \in {"while", "minimax"}
    /\ \E time \in Deadlines :
        LET lower == descent.lower_abstraction
            cp == descent.cop_positions
            rp == descent.robber_position
            left == [descent EXCEPT !.pc = "idle", !.way = "killed"]
        IN  IF descent.pc = "while"
            THEN descent' = left
            ELSE IF lower = NoLevel
            THEN descent' = [left EXCEPT !.strategy.literal_table =
                                best_cop_move(descent.strategy.graph, @, cp, rp,
                                              MINIMAX_DEPTH, time).tt]
            ELSE descent' = [left EXCEPT !.strategy.tables[lower] =
                                abstract_minimax(descent.strategy, lower, cp, rp, time).tt]
    /\ DescentFrame

DescentNext ==
    \/ MinimaxRefinementCall
    \/ DescentRound
    \/ DescentMinimax
    \/ DescentKilled

DescentSpec == DescentInit /\ [][DescentNext]_vars

\* the probability kept for the key of the last search of the descent
LastTimeoutProbability ==
    Probability(descent.strategy.minimax_timeout_probability, descent.timeout_key, NEVER)

\* a search of the descent was started at descent.timeout_key and is over: done or killed
SearchOver == descent.called /\ descent.timeout_key # NoKey /\ descent.pc # "minimax"

\* a round that meets the probability 1 at its key stops there and leaves 1/2
StopsAtCertain ==
    [][(/\ descent.pc = "while"
        /\ descent'.pc # "while"
        /\ descent'.way # "killed") =>
            LET timeout_key == <<descent'.lower_abstraction, descent.cop_positions,
                                 descent.robber_position>>
                before == Probability(descent.strategy.minimax_timeout_probability,
                                      timeout_key, NEVER)
                after == Probability(descent'.strategy.minimax_timeout_probability,
                                     timeout_key, NEVER)
            IN  /\ descent'.pc = "minimax" => after = CERTAIN
                /\ before = CERTAIN =>
                        /\ descent'.way = "stopped"
                        /\ after = Halved(CERTAIN)
      ]_vars

\* C24 as stated: the probability of a key is 1 from the start of the search at its level on,
\* and is back at 0 only if the search was not killed and the round ended with the finish time
\* not exceeded; after a killed or late round it is 1; the next descent that reaches the key
\* stops there and leaves 1/2.
C24_ResetOnlyInTime ==
    /\ [](descent.called /\ descent.pc = "minimax" => LastTimeoutProbability = CERTAIN)
    /\ [](SearchOver =>
            /\ LastTimeoutProbability \in {CERTAIN, NEVER}
            /\ LastTimeoutProbability = NEVER <=> (descent.way # "killed" /\ ~ descent.late))
    /\ StopsAtCertain

\* C24, amended: the probability is back at 0 if the round ended with the finish time not
\* exceeded, and also, whatever the clock says, if the search of the actual graph found a
\* winning move; it is 1 after a killed round and after a late round without such a move.
C24_ResetInTimeOrLiteralWin ==
    /\ [](descent.called /\ descent.pc = "minimax" => LastTimeoutProbability = CERTAIN)
    /\ [](SearchOver =>
            /\ LastTimeoutProbability \in {CERTAIN, NEVER}
            /\ LastTimeoutProbability = NEVER <=>
                    /\ descent.way # "killed"
                    /\ ~ descent.late \/ descent.way = "literal_minimax")
    /\ StopsAtCertain

\* a descent stopped at a key whose search an earlier descent had left killed or late
C24_Witness ==
    /\ descent.called
    /\ descent.way = "stopped"
    /\ Probability(descent.strategy.minimax_timeout_probability,
                   <<descent.lower_abstraction, descent.cop_positions, descent.robber_position>>,
                   NEVER) = Halved(CERTAIN)

(***************************************************************************)
(* ContourRelaxationRobberStrategy.step called on its own with ample time: *)
(* RelaxationSpec.  The graphs are the connected graphs of the players and *)
(* triangles with a tail (networkx.lollipop_graph).                        *)
(***************************************************************************)
MaxTail == 2            \* the tails are of 1..MaxTail nodes
RelaxationCops == 2     \* the steps are against 1..RelaxationCops cops

\* networkx.lollipop_graph(m, n): the complete graph on 0..m-1, the path m..m+n-1, and the
\* edge between m-1 and m added last
lollipop_graph(m, n) ==
    [nodes |-> 0..(m + n - 1),
     order |-> [i \in 1..(m + n) |-> i - 1],
     adj |-> [v \in 0..(m + n - 1) |->
                IF v < m
                THEN SortedSeq((0..(m - 1)) \ {v}) \o (IF v = m - 1 THEN <<m>> ELSE <<>>)
                ELSE SeqFilter(<<v - 1, v + 1>>, m..(m + n - 1))
                        \o (IF v = m THEN <<m - 1>> ELSE <<>>)]]

RelaxationGraphs ==
    {G \in EngineGraphs : Reach(G, {0}) = G.nodes}
        \cup {lollipop_graph(3, n) : n \in 1..MaxTail}

RECURSIVE RelaxedContours(_,_,_,_,_,_,_)
\* the loop `while cop_contour and robber_contour` with ample time, and what it leaves behind:
\* the nodes relaxed by the cops' contours, the predecessors and the cover node
RelaxedContours(G, cop_contour, robber_contour, visited, cop_relaxed, robber_predecessor, robber_cover_node) ==
    IF cop_contour = {} \/ robber_contour = {}
    THEN [cop_relaxed |-> cop_relaxed, robber_predecessor |-> robber_predecessor,
          robber_cover_node |-> robber_cover_node]
    ELSE With(ExpandCopContour(G, SortedSeq(cop_contour), visited, {}),
              LAMBDA c :
                With(ExpandRobberContour(G, SortedSeq(robber_contour),
                                         [visited |-> c.visited, next |-> {},
                                          robber_predecessor |-> robber_predecessor,
                                          robber_cover_node |-> robber_cover_node]),
                     LAMBDA r :
                        RelaxedContours(G, c.next, r.next, r.visited,
                                        cop_relaxed \cup (c.visited \ visited),
                                        r.robber_predecessor, r.robber_cover_node)))

RelaxationInit ==
    /\ DriverIdle
    /\ MinimaxIdle
    /\ PartsIdle
    /\ cops_player = [graph |-> NoGraph]
    /\ \E G \in RelaxationGraphs :
        \E node \in G.nodes : robber_player = [graph |-> G, robber_position |-> node]
    /\ engine_call = NoEngineCall
    /\ engine_turn = "ContourRelaxationRobberStrategy.step"
    /\ engine_steps = 0

\* ContourRelaxationRobberStrategy.step(cop_positions, robber_position, finish_time) with a
\* finish_time far away; the robber goes where it says
ContourRelaxationStep ==
    /\ engine_turn = "ContourRelaxationRobberStrategy.step"
    /\ engine_steps < MaxSteps
    /\ \E k \in 1..RelaxationCops :
        \E cp \in [1..k -> robber_player.graph.nodes] :
            LET rp == robber_player.robber_position
                node == contour_relaxation_step(robber_player.graph, cp, rp, Unlimited)
            IN  /\ rp \notin Range(cp)
                /\ robber_player' = [robber_player EXCEPT !.robber_position = node]
                /\ engine_call' = [NoEngineCall EXCEPT
                                        !.kind = "ContourRelaxationRobberStrategy.step",
                                        !.cops_before = cp,
                                        !.robber_before = rp,
                                        !.returned = <<node>>,
                                        !.way = "contour_relaxation"]
    /\ engine_steps' = engine_steps + 1
    /\ UNCHANGED <<cops_player, engine_turn>>
    /\ UNCHANGED <<dvars, mvars, ovars, pvars>>

RelaxationNext == ContourRelaxationStep

RelaxationSpec == RelaxationInit /\ [][RelaxationNext]_vars

\* what the last step left behind
LastRelaxation ==
    RelaxedContours(robber_player.graph, Range(engine_call.cops_before),
                    {engine_call.robber_before}, {}, {}, <<>>, engine_call.robber_before)

RECURSIVE DistanceWithin(_,_,_,_,_)
\* the length of a shortest path from the nodes of `reached` to `target` inside `region`,
\* `steps` being the length so far; -1 if there is none
DistanceWithin(G, region, reached, target, steps) ==
    IF target \in reached THEN steps
    ELSE LET next == reached \cup {w \in region : \E v \in reached : w \in Range(G.adj[v])}
         IN  IF next = reached THEN -1
             ELSE DistanceWithin(G, region, next, target, steps + 1)

\* C26: with ample time the step returns the robber's position if that is the cover node, and
\* else a neighbour of the robber that is one step nearer to the cover node than the robber,
\* on the nodes the cops' contours have not relaxed; the cover node is the node the robber's
\* contours relaxed last.
C26_FirstStepOfShortestPath ==
    engine_call.kind = "ContourRelaxationRobberStrategy.step" =>
        LET G == robber_player.graph
            rp == engine_call.robber_before
            node == engine_call.returned[1]
            cover == LastRelaxation.robber_cover_node
            region == (G.nodes \ LastRelaxation.cop_relaxed) \cup {rp, cover}
        IN  /\ node = get_robber_move(LastRelaxation.robber_predecessor, rp, cover)
            /\ cover = rp => node = rp
            /\ cover # rp =>
                /\ node \in Range(G.adj[rp])
                /\ DistanceWithin(G, region, {node}, cover, 1)
                        = DistanceWithin(G, region, {rp}, cover, 0)

(***************************************************************************)
(* What the transposition table holds after a search the deadline cut.     *)
(***************************************************************************)
\* C27: no entry of the transposition table holds the value of a search cut by the deadline:
\* the value 0.5 is never stored, so every entry comes from a search that completed.
C27_NoTimeoutValueStored ==
    \A position \in DOMAIN transposition :
        transposition[position].evaluation # TIMEOUT_VALUE

(***************************************************************************)
(* Game.step on a game that has concluded, checked on the driver (Spec).   *)
(***************************************************************************)
\* C29 as stated: once the status has left GAME_CONTINUES no player is called any more, and the
\* positions, the round number, the player to move and the status keep their values.
C29_ConcludedStepChangesNothing ==
    [][status # GAME_CONTINUES =>
            UNCHANGED <<cop_positions, robber_position, round_number, next_player, status,
                        last_call>>]_vars

\* C29, amended: on a concluded game the status keeps its value; a step changes nothing if the
\* initialisation of the players failed (next_player is None); otherwise the step is played as
\* in a running game: the player is called, the round number grows if the first mover is to
\* move, and the turn passes to the other player.
C29_ConcludedStepStillPlays ==
    [][status # GAME_CONTINUES =>
            /\ status' = status
            /\ next_player = NoPlayer =>
                    UNCHANGED <<cop_positions, robber_position, round_number, next_player,
                                last_call>>
            /\ (next_player # NoPlayer /\ StepTaken) =>
                    /\ last_call'.player = next_player
                    /\ last_call'.kind \in {"step", "init_pos"}
                    /\ next_player' \in {COPS, ROBBER} \ {next_player}
                    /\ round_number' = IF next_player = first_player THEN round_number + 1
                                       ELSE round_number]_vars

\* the robber stepped, and its move was taken, in a round after the one the game ended in
C29_Witness ==
    /\ status = COPS_OUT_OF_STEPS
    /\ round_number > max_rounds
    /\ last_call.player = ROBBER /\ last_call.kind = "step" /\ last_call.outcome = "return"
    /\ next_player = COPS

(***************************************************************************)
(* A turn of Game.step with the thread that runs the player's call, taken  *)
(* apart into the steps of the two threads: ThreadSpec.  The players are   *)
(* the engine's Cops and Robber on the driver's path graph: they remember  *)
(* their positions and move from them along the edges.  step_thread holds  *)
(* what the players remember, where the thread is in the call ("computing" *)
(* the move, "computed", "assigned" to the player's field, "finished") and *)
(* where the driver is in __step_player ("joining", "timed_out").          *)
(***************************************************************************)
ThreadFrame == UNCHANGED <<mvars, evars, ovars, store, effective_call, refinement_call, descent>>

\* the game is constructed, the cops have chosen their positions, the robber has not
ThreadInit ==
    /\ status = GAME_CONTINUES
    /\ round_number = 0
    /\ next_player = ROBBER
    /\ first_player = ROBBER
    /\ cop_positions \in [1..NCops -> DriverNodes]
    /\ robber_position = None
    /\ cops_count = NCops
    /\ max_rounds = None
    /\ cops = TRUE
    /\ robber = TRUE
    /\ pc = "constructed"
    /\ run_state = "not_called"
    /\ run_steps = 0
    /\ last_call = NoCall
    /\ MinimaxIdle
    /\ EngineIdle
    /\ zobrist = NoZobrist
    /\ repair_call = NoRepairCall
    /\ hierarchy = NoHierarchy
    /\ loop = NoLoop
    /\ store = NoStore
    /\ effective_call = NoEffectiveCall
    /\ refinement_call = NoRefinementCall
    /\ descent = NoDescent
    /\ step_thread = [started |-> TRUE, cop_positions |-> cop_positions,
                      robber_position |-> None, phase |-> "none", join |-> "idle",
                      player |-> NoPlayer, is_init_pos |-> FALSE, cop_move |-> <<>>,
                      robber_move |-> None, forfeited |-> FALSE]

\* the nodes a piece on `node` can step to
StepsFrom(node) == {w \in DriverNodes : w = node \/ HasEdge(node, w)}

\* Game.step up to the call of __step_player, and __step_player up to thread.start()
ThreadStart ==
    /\ step_thread.join = "idle"
    /\ status = GAME_CONTINUES
    /\ RoundAtStep(round_number, next_player, first_player) <= MaxRoundNumber
    /\ round_number' = RoundAtStep(round_number, next_player, first_player)
    /\ step_thread' = [step_thread EXCEPT
                            !.join = "joining", !.phase = "computing",
                            !.player = next_player,
                            !.is_init_pos = IsInitPos(next_player, cop_positions,
                                                      robber_position)]
    /\ UNCHANGED <<status, next_player, first_player, cop_positions, robber_position,
                   cops_count, max_rounds, cops, robber, pc, run_state, run_steps, last_call>>
    /\ ThreadFrame

\* the thread: the strategy of the player computes the move, from the positions the player
\* remembers (Cops.step lines 144-158, Robber.step lines 103-116, get_init_position)
PlayerComputes ==
    /\ step_thread.phase = "computing"
    /\ IF step_thread.player = COPS
       THEN \E move \in [1..Len(step_thread.cop_positions) -> DriverNodes] :
                /\ IF InSeq(robber_position, step_thread.cop_positions)
                   THEN move = step_thread.cop_positions
                   ELSE \A i \in 1..Len(move) : move[i] \in StepsFrom(step_thread.cop_positions[i])
                /\ step_thread' = [step_thread EXCEPT !.phase = "computed", !.cop_move = move]
       ELSE \E node \in DriverNodes :
                /\ ~ step_thread.is_init_pos => node \in StepsFrom(step_thread.robber_position)
                /\ step_thread' = [step_thread EXCEPT !.phase = "computed", !.robber_move = node]
    /\ UNCHANGED dvars
    /\ ThreadFrame

\* the thread: self.cop_positions[component] = ... (cops.py:154), self.robber_position = ...
\* (robber.py:112)
PlayerAssigns ==
    /\ step_thread.phase = "computed"
    /\ step_thread' = IF step_thread.player = COPS
                      THEN [step_thread EXCEPT !.phase = "assigned",
                                               !.cop_positions = step_thread.cop_move]
                      ELSE [step_thread EXCEPT !.phase = "assigned",
                                               !.robber_position = step_thread.robber_move]
    /\ UNCHANGED dvars
    /\ ThreadFrame

\* the thread: the call returns and KillableThread.run keeps the result; the thread ends
PlayerReturns ==
    /\ step_thread.phase = "assigned"
    /\ step_thread' = [step_thread EXCEPT !.phase = "finished"]
    /\ UNCHANGED dvars
    /\ ThreadFrame

\* the rest of Game.step after __step_player left the fields st, cp, rp, cc
ThreadStepEnds(r, forfeited) ==
    /\ status' = EndOfRound(r.st, next_player, first_player, r.cp, r.rp, round_number,
                            max_rounds)
    /\ cop_positions' = r.cp
    /\ robber_position' = r.rp
    /\ cops_count' = r.cc
    /\ next_player' = OtherPlayer(next_player)
    /\ step_thread' = [step_thread EXCEPT !.join = "idle", !.phase = "none",
                                          !.forfeited = forfeited]
    /\ UNCHANGED <<round_number, first_player, max_rounds, cops, robber, pc, run_state,
                   run_steps, last_call>>
    /\ ThreadFrame

\* the driver: thread.join finds the thread ended and hands back its result, which the setter
\* takes (game.py:184, 209-213)
JoinReturns ==
    /\ step_thread.join = "joining"
    /\ step_thread.phase = "finished"
    /\ ThreadStepEnds(StepPlayer(status, cop_positions, robber_position, cops_count,
                                 step_thread.player, step_thread.is_init_pos, "return",
                                 IF step_thread.player = COPS THEN step_thread.cop_move
                                 ELSE step_thread.robber_move),
                      step_thread.forfeited)

\* the driver: the timeout of thread.join passes and is_alive() is true: TimeoutError
\* (killable_thread.py:47-49)
JoinTimesOut ==
    /\ step_thread.join = "joining"
    /\ step_thread.phase \in {"computing", "computed", "assigned"}
    /\ step_thread' = [step_thread EXCEPT !.join = "timed_out"]
    /\ UNCHANGED dvars
    /\ ThreadFrame

\* the driver: thread.terminate() (the thread's next operation raises SystemExit, or the thread
\* has ended already), and the turn is skipped (game.py:186-199)
Terminate ==
    /\ step_thread.join = "timed_out"
    /\ ThreadStepEnds(StepPlayer(status, cop_positions, robber_position, cops_count,
                                 step_thread.player, step_thread.is_init_pos, "timeout", None),
                      step_thread.forfeited \/ ~ step_thread.is_init_pos)

ThreadNext ==
    \/ ThreadStart
    \/ PlayerComputes
    \/ PlayerAssigns
    \/ PlayerReturns
    \/ JoinReturns
    \/ JoinTimesOut
    \/ Terminate

ThreadSpec == ThreadInit /\ [][ThreadNext]_vars

\* C28: at the start of every step call of a running game the positions the players remember
\* are the driver's, also after a skipped turn, and a game with a skipped turn does not end
\* with an invalid step.
C28_RememberedPositionsAgree ==
    step_thread.started =>
        /\ (step_thread.join = "idle" /\ status = GAME_CONTINUES) =>
                /\ step_thread.cop_positions = cop_positions
                /\ robber_position # None => step_thread.robber_position = robber_position
        /\ step_thread.forfeited => status \notin InvalidStatuses

\* C28, second half alone: a game with a skipped turn does not end with an invalid step
C28_NoInvalidStepAfterForfeit ==
    (step_thread.started /\ step_thread.forfeited) => status \notin InvalidStatuses

(***************************************************************************)
(* abstract_refinement_search called on its own: on the strategy of a      *)
(* connected graph, for a level of its hierarchy, literal cop positions    *)
(* and abstract targets of that level.                                     *)
(***************************************************************************)
RefinementNodes == 11   \* the families of graphs searched have up to RefinementNodes nodes
RefinementCops == 2     \* the lists of cop positions have 1..RefinementCops entries
DeepNodes == 21         \* a path and a cycle of DeepNodes nodes have hierarchies of three levels

RefinementFrame ==
    UNCHANGED <<dvars, mvars, evars, ovars, store, effective_call, descent, step_thread>>

\* connected graphs searched with lists of 1..RefinementCops cop positions: hierarchies of
\* one level (RefinementNodes - 1 nodes) and of two levels (RefinementNodes nodes)
ManyCopGraphs ==
    UNION {{path_graph(n), cycle_graph(n), star(n)} :
                n \in (RefinementNodes - 1)..RefinementNodes}

\* connected graphs with hierarchies of three levels
DeepGraphs == {path_graph(DeepNodes), cycle_graph(DeepNodes)}

\* all connected graphs searched; those not in ManyCopGraphs with one cop
RefinementGraphs ==
    ManyCopGraphs
        \cup {path_graph(n) : n \in 1..RefinementNodes}
        \cup {chorded_path(RefinementNodes, i, i + 2) : i \in 0..(RefinementNodes - 3)}
        \cup {lollipop_graph(m, RefinementNodes - m) : m \in 3..4}
        \cup DeepGraphs

RefinementInit ==
    /\ DriverIdle
    /\ MinimaxIdle
    /\ EngineIdle
    /\ zobrist = NoZobrist
    /\ repair_call = NoRepairCall
    /\ hierarchy = NoHierarchy
    /\ loop = NoLoop
    /\ store = NoStore
    /\ effective_call = NoEffectiveCall
    /\ descent = NoDescent
    /\ step_thread = NoStepThread
    /\ \E G \in RefinementGraphs :
            refinement_call = [called |-> FALSE, strategy |-> NewStrategy(G)]

\* strategy.abstract_refinement_search(abstraction, cop_positions, abstract_targets)
AbstractRefinementSearchCall ==
    /\ ~ refinement_call.called
    /\ LET strategy == refinement_call.strategy
       IN  \E level \in 1..Len(strategy.abstractions) :
           \E n \in 1..(IF strategy.graph \in ManyCopGraphs THEN RefinementCops ELSE 1) :
           \E cp \in [1..n -> strategy.graph.nodes] :
           \E abstract_targets \in [1..n -> strategy.abstractions[level].graph.nodes] :
                refinement_call' =
                    [called |-> TRUE, strategy |-> strategy, level |-> level,
                     cop_positions |-> cp, abstract_targets |-> abstract_targets,
                     returned |-> abstract_refinement_search(strategy, level, cp,
                                                             abstract_targets)]
    /\ RefinementFrame

RefinementNext == AbstractRefinementSearchCall

RefinementSpec == RefinementInit /\ [][RefinementNext]_vars

RECURSIVE ReachWithin(_,_,_)
\* the nodes reached from the set reached in the sub graph of G induced by nodes
ReachWithin(G, nodes, reached) ==
    LET more == reached \cup UNION {Range(Neighbors(G, nodes, v)) : v \in reached}
    IN  IF more = reached THEN reached ELSE ReachWithin(G, nodes, more)

\* the sub graph of G induced by nodes is connected
ConnectedWithin(G, nodes) ==
    \A v \in nodes : ReachWithin(G, nodes, {v}) = nodes

\* the pre-image of every abstract node of every level is connected in the graph below it
PreImagesConnected(strategy) ==
    \A level \in 1..Len(strategy.abstractions) :
        \A a \in strategy.abstractions[level].graph.nodes :
            LET below == GraphBelow(strategy, level)
                pre_image == inverse_vertex_mapping(below, strategy.abstractions[level], a)
            IN  pre_image # {} /\ ConnectedWithin(below, pre_image)

\* C30: on every connected graph, for every level of its hierarchy, all literal cop positions
\* and all abstract targets of that level, abstract_refinement_search returns a move (no
\* search of the descent raises "There is no path"), the pre-image of every abstract node is
\* connected in the next finer graph, and every cop's step is its position or a neighbour
\* of it.
C30_RefinementFindsAPath ==
    /\ Connected(refinement_call.strategy.graph)
    /\ ~ refinement_call.called => PreImagesConnected(refinement_call.strategy)
    /\ refinement_call.called =>
        LET strategy == refinement_call.strategy
            cp == refinement_call.cop_positions
            move == refinement_call.returned
        IN  /\ move # <<>>
            /\ Len(move) = Len(cp)
            /\ \A i \in 1..Len(cp) :
                    \/ move[i] = cp[i]
                    \/ move[i] \in Range(strategy.graph.adj[cp[i]])

\* a search from the second level or above on which a cop leaves its position towards a
\* target that is not the abstract node of its position
C30_Witness ==
    /\ refinement_call.called
    /\ refinement_call.level >= 2
    /\ refinement_call.returned # <<>>
    /\ \E i \in 1..Len(refinement_call.cop_positions) :
            /\ refinement_call.returned[i] # refinement_call.cop_positions[i]
            /\ refinement_call.strategy.abstractions[refinement_call.level]
                    .literal_vertex_mapping[refinement_call.cop_positions[i]]
                  # refinement_call.abstract_targets[i]

====
